---- MODULE Spec2Model ----
(***************************************************************************)
(* LazyIVQueue: the in-memory IV queue (IVQueueManager), the webhook       *)
(* filter that feeds and drains it, the scout coordinator and the cleanup  *)
(* loop, as one state machine.                                             *)
(*                                                                         *)
(* Everything runs on one asyncio event loop.  No body of                  *)
(* `async with self._queue_lock` contains an await, so the lock is never   *)
(* contended and acquiring it never suspends; the semaphore is acquired    *)
(* only when its value is positive, so that never suspends either.  Each   *)
(* handler below therefore runs from its first queue access to its return  *)
(* without interleaving, and is one action.                                *)
(***************************************************************************)
EXTENDS Integers, Sequences, FiniteSets, TLC

(***************************************************************************)
(* Bounds of the model.                                                    *)
(***************************************************************************)
\* QueueEntry objects accepted by add over one run
MaxEntries == 2
\* last value of the wall clock (time.time(), shifted so that it starts at 1)
MaxTime == 3
\* largest limit passed to update_concurrency
MaxConcurrency == 2
\* longest ivlist / celllist a configuration is drawn with
MaxListLen == 1001
\* most spawns the census feed delivers
MaxSpawns == 3

(***************************************************************************)
(* Configuration values (LazyIVQueue/config.py), chosen small.             *)
(***************************************************************************)
concurrency_scout == 1
timeout_iv == 1
iv_threshold == 1
calibration_minutes == 1
auto_rarity_enabled == TRUE
filter_with_koji == FALSE

(***************************************************************************)
(* Literals of the source.                                                 *)
(***************************************************************************)
COORDINATE_MATCH_THRESHOLD_METERS == 70
\* filter.py: priority = 1000 / 1000 + rank for auto_rarity entries
RarityTierBase == 1000
\* filter.py: default_disappear_time = int(time.time()) + 600
DefaultDisappearDelay == 600
\* process_census_webhook: "pokemon.disappear_time or (current_time + 1800)"
CensusDisappearDelay == 1800
\* get_rarity_rank: "len(self._rank_cache.get(lookup_area, {})) + 1000"
PendingRankBase == 1000
\* _ranking_loop: "AppConfig.calibration_minutes * 60"
SecondsPerMinute == 60

(***************************************************************************)
(* Python's None for the optional fields.  The code tests encounter_id,    *)
(* spawnpoint_id, disappear_time and scout_started_at by truthiness, so    *)
(* None and the empty / zero value are the same case for it.               *)
(***************************************************************************)
NoStr == ""
NoTime == 0
NoForm == -1
NoCell == -1
NoRank == 0
NoEntry == 0

SeenTypes == {"wild", "nearby_stop", "nearby_cell"}

(***************************************************************************)
(* The creatures the Sightings Feed reports.  A webhook about a creature   *)
(* carries that creature's attributes (PokemonData); positions are metres  *)
(* along one meridian.                                                     *)
(*   w1  species 25 (on the ivlist), encounter E1, at 0 m                  *)
(*   w2  species 10 (rarity path),   encounter E2, at 60 m (within 70 m    *)
(*       of w1)                                                            *)
(*   w3  species 10 (rarity path),   no encounter id, spawnpoint S1        *)
(*   w4  species 132 (on the celllist), nearby_cell, no ids, at 300 m      *)
(*   w5  species 132, encounter E9, at 400 m: same S2 cell as w4 and more  *)
(*       than 70 m from every other creature                               *)
(***************************************************************************)
World ==
  { [pokemon_id |-> 25,  form |-> NoForm, loc |-> 0,   spawnpoint_id |-> NoStr,
     encounter_id |-> "E1", disappear_time |-> NoTime, seen_type |-> "wild"],
    [pokemon_id |-> 10,  form |-> NoForm, loc |-> 60,  spawnpoint_id |-> NoStr,
     encounter_id |-> "E2", disappear_time |-> 2, seen_type |-> "wild"],
    [pokemon_id |-> 10,  form |-> NoForm, loc |-> 300, spawnpoint_id |-> "S1",
     encounter_id |-> NoStr, disappear_time |-> 2, seen_type |-> "nearby_stop"],
    [pokemon_id |-> 132, form |-> NoForm, loc |-> 300, spawnpoint_id |-> NoStr,
     encounter_id |-> NoStr, disappear_time |-> 3, seen_type |-> "nearby_cell"],
    [pokemon_id |-> 132, form |-> NoForm, loc |-> 400, spawnpoint_id |-> NoStr,
     encounter_id |-> "E9", disappear_time |-> 3, seen_type |-> "lure_wild"] }

\* The species keys the feed can carry ("id" or "id:form")
Displays == { <<25>>, <<10>>, <<132>> }

\* the tasks that take locks: the three webhook handlers, the Dispatcher's
\* loop and its scout tasks, the Janitor, and the two census timers
Handlers ==
  { "filter_non_iv_pokemon", "filter_iv_pokemon", "process_census_webhook",
    "_run_loop", "_execute_scout", "_cleanup_loop",
    "RarityManager._cleanup_loop", "_ranking_loop" }

VARIABLES
  now,                   \* time.time()
  ivlist, celllist,      \* AppConfig.ivlist / AppConfig.celllist (raw lists)
  AppConfig_concurrency_scout,  \* the module global AppConfig.concurrency_scout
  AppConfig_filter_with_koji,   \* the module global AppConfig.filter_with_koji
  app_pc,                \* where LazyIVQueueApp.run stands: the next step of
                         \* start, "run", "shutdown" or "done"
  _cleanup_task,         \* LazyIVQueueApp._cleanup_task is running
  _running,              \* ScoutCoordinator._running
  _session,              \* APIClient._session is open (not None)
  _site,                 \* LazyIVQueueServer._site is listening
  _refresh_task,         \* KojiGeofenceManager._refresh_task is running
  _geofences,            \* KojiGeofenceManager._geofences, in dict order
  refresh_success,       \* what the last _fetch_and_update_geofences returned
  _status,               \* RarityManager._status
  _start_time,           \* RarityManager._start_time; NoTime: no instance yet
  _actives,              \* RarityManager._actives, in insertion order
  _rank_cache,           \* RarityManager._rank_cache, in insertion order
  _total_spawns_tracked, \* RarityManager._total_spawns_tracked
  _ranking_task,         \* RarityManager._ranking_task is running
  RarityManager_cleanup_task,   \* RarityManager._cleanup_task is running
  task_pc,               \* per task: the lock operations of its handler done
  holding,               \* per task: the asyncio.Locks it holds
  objs,                  \* the QueueEntry objects add accepted, by identity
  _entries,              \* IVQueueManager._entries: dict in insertion order
  _heap,                 \* IVQueueManager._heap: heapq array of entries
  _scout_semaphore,      \* _value of the semaphore _scout_semaphore refers to
  _current_concurrency,
  _active_scouts,
  _queued_by_type, _matches_by_type, _early_iv_by_type, _timeouts_by_type,
  _queued_by_pokemon, _matches_by_pokemon, _early_iv_by_pokemon,
  _timeouts_by_pokemon,
  scoutTasks,            \* running _execute_scout tasks, by their entry
  carried,               \* history: scouts in flight at the last update_concurrency
  oldHolders,            \* history: those of them that have not completed yet
  updated                \* history: update_concurrency has been called

stats == << _queued_by_type, _matches_by_type, _early_iv_by_type,
            _timeouts_by_type, _queued_by_pokemon, _matches_by_pokemon,
            _early_iv_by_pokemon, _timeouts_by_pokemon >>
hist == << carried, oldHolders, updated >>
config == << ivlist, celllist, AppConfig_concurrency_scout,
            AppConfig_filter_with_koji >>
lifecycle == << app_pc, _cleanup_task, _running, _session, _site, _refresh_task >>
koji == << _geofences, refresh_success >>
census == << _status, _start_time, _actives, _rank_cache,
            _total_spawns_tracked, _ranking_task, RarityManager_cleanup_task >>
locks == << task_pc, holding >>
vars == << now, config, locks, lifecycle, koji, census, objs, _entries, _heap, _scout_semaphore,
           _current_concurrency, _active_scouts, stats, scoutTasks, hist >>

(***************************************************************************)
(* QueueEntry                                                              *)
(***************************************************************************)
\* QueueEntry.unique_key
unique_key(e) ==
  IF e.encounter_id # NoStr THEN << "enc", e.encounter_id >>
  ELSE IF e.spawnpoint_id # NoStr
       THEN << "sp", e.spawnpoint_id, ToString(e.pokemon_id) >>
       ELSE << "ll", ToString(e.loc), ToString(e.pokemon_id) >>

\* QueueEntry.pokemon_display / PokemonData.pokemon_display
pokemon_display(p) ==
  IF p.form # NoForm THEN << p.pokemon_id, p.form >> ELSE << p.pokemon_id >>

\* dataclass(order=True): __lt__ compares (priority, timestamp)
EntryLess(a, b) ==
  \/ a.priority < b.priority
  \/ a.priority = b.priority /\ a.timestamp < b.timestamp

(***************************************************************************)
(* heapq on a list of entries (the entries are held by identity; o maps an *)
(* identity to the object).  Positions are 0-based as in heapq, the        *)
(* sequence index is position + 1.                                         *)
(***************************************************************************)
RECURSIVE SiftDownLoop(_, _, _, _, _)
SiftDownLoop(o, heap, startpos, pos, newitem) ==
  IF pos > startpos
  THEN LET parentpos == (pos - 1) \div 2
           parent == heap[parentpos + 1]
       IN  IF EntryLess(o[newitem], o[parent])
           THEN SiftDownLoop(o, [heap EXCEPT ![pos + 1] = parent],
                             startpos, parentpos, newitem)
           ELSE [heap EXCEPT ![pos + 1] = newitem]
  ELSE [heap EXCEPT ![pos + 1] = newitem]

\* heapq._siftdown(heap, startpos, pos)
SiftDown(o, heap, startpos, pos) ==
  SiftDownLoop(o, heap, startpos, pos, heap[pos + 1])

RECURSIVE SiftUpLoop(_, _, _, _, _)
SiftUpLoop(o, heap, pos, childpos, newitem) ==
  IF childpos < Len(heap)
  THEN LET rightpos == childpos + 1
           c == IF rightpos < Len(heap)
                   /\ ~EntryLess(o[heap[childpos + 1]], o[heap[rightpos + 1]])
                THEN rightpos ELSE childpos
       IN  SiftUpLoop(o, [heap EXCEPT ![pos + 1] = heap[c + 1]],
                      c, 2 * c + 1, newitem)
  ELSE SiftDown(o, [heap EXCEPT ![pos + 1] = newitem], 0, pos)

\* heapq._siftup(heap, 0)
SiftUp(o, heap) == SiftUpLoop(o, heap, 0, 1, heap[1])

\* A push that appends without restoring the heap order
heappush_NoSift(o, heap, item) == Append(heap, item)

\* heapq.heappush(heap, item)
heappush(o, heap, item) == SiftDown(o, Append(heap, item), 0, Len(heap))

\* heapq.heappop(heap): the popped item and the remaining heap
heappop(o, heap) ==
  LET lastelt == heap[Len(heap)]
      rest == SubSeq(heap, 1, Len(heap) - 1)
  IN  IF rest # << >>
      THEN [item |-> rest[1], heap |-> SiftUp(o, [rest EXCEPT ![1] = lastelt])]
      ELSE [item |-> lastelt, heap |-> << >>]

(***************************************************************************)
(* The dict _entries: key -> entry, iterated in insertion order.  It is    *)
(* the sequence of the entries it maps to; the key of a position is the    *)
(* unique_key of its entry (an entry's key fields never change).           *)
(***************************************************************************)
\* key in self._entries
KeyIn(o, d, key) == \E i \in 1..Len(d) : unique_key(o[d[i]]) = key

\* self._entries[key] (key present)
DictGet(o, d, key) ==
  d[CHOOSE i \in 1..Len(d) : unique_key(o[d[i]]) = key]

\* self._entries[key] = entry: a present key keeps its position
DictSet(o, d, key, id) ==
  IF KeyIn(o, d, key)
  THEN [i \in 1..Len(d) |-> IF unique_key(o[d[i]]) = key THEN id ELSE d[i]]
  ELSE Append(d, id)

\* del self._entries[key] / self._entries.pop(key)
DictDel(o, d, key) == SelectSeq(d, LAMBDA x : unique_key(o[x]) # key)

\* the entries of the dict, as a set
DictValues(d) == { d[i] : i \in 1..Len(d) }

(***************************************************************************)
(* Configuration lists                                                     *)
(***************************************************************************)
NoPriority == -1

\* config.parse_ivlist, read at one key: the last position of the key wins
parse_ivlist(raw_list, key) ==
  IF \E i \in 1..Len(raw_list) : raw_list[i] = key
  THEN (CHOOSE i \in 1..Len(raw_list) :
          /\ raw_list[i] = key
          /\ \A j \in 1..Len(raw_list) : raw_list[j] = key => j <= i) - 1
  ELSE NoPriority

\* filter.is_in_ivlist / filter.is_in_celllist on a raw list
is_in_list(raw_list, p) ==
  LET exact == IF p.form # NoForm
               THEN parse_ivlist(raw_list, << p.pokemon_id, p.form >>)
               ELSE NoPriority
      anyform == parse_ivlist(raw_list, << p.pokemon_id >>)
  IN  IF exact # NoPriority THEN [matches |-> TRUE, priority |-> exact]
      ELSE IF anyform # NoPriority THEN [matches |-> TRUE, priority |-> anyform]
      ELSE [matches |-> FALSE, priority |-> NoPriority]

\* utils.s2_utils.get_s2_cell_id at level 15 (cells of about 300 m)
S2CellSize == 300
get_s2_cell_id(loc) == loc \div S2CellSize

\* utils.geo_utils.is_within_distance along the meridian
is_within_distance(loc1, loc2, threshold_meters) ==
  (IF loc1 >= loc2 THEN loc1 - loc2 ELSE loc2 - loc1) <= threshold_meters

(***************************************************************************)
(* Initial state: IVQueueManager.__init__ and initialize                   *)
(***************************************************************************)
ZeroByType == [t \in SeenTypes |-> 0]
ZeroByPokemon == [t \in SeenTypes |-> [d \in Displays |-> 0]]

\* every component has been started: LazyIVQueueApp.start has returned
Started ==
  /\ app_pc = "run"
  /\ _cleanup_task = TRUE
  /\ _running = TRUE
  /\ _session = TRUE
  /\ _site = TRUE
  /\ _refresh_task = TRUE

\* the queue, the configuration and the class attributes as the constructors
\* leave them; no RarityManager instance exists yet
Constructed(iv, cell) ==
  /\ now = 1
  /\ ivlist = iv
  /\ celllist = cell
  /\ AppConfig_concurrency_scout = concurrency_scout
  /\ _status = "CALIBRATING"
  /\ _start_time = NoTime
  /\ _actives = << >>
  /\ _rank_cache = << >>
  /\ _total_spawns_tracked = 0
  /\ _ranking_task = FALSE
  /\ RarityManager_cleanup_task = FALSE
  /\ task_pc = [t \in Handlers |-> 0]
  /\ holding = [t \in Handlers |-> {}]
  /\ objs = << >>
  /\ _entries = << >>
  /\ _heap = << >>
  /\ _scout_semaphore = concurrency_scout
  /\ _current_concurrency = concurrency_scout
  /\ _active_scouts = 0
  /\ _queued_by_type = ZeroByType
  /\ _matches_by_type = ZeroByType
  /\ _early_iv_by_type = ZeroByType
  /\ _timeouts_by_type = ZeroByType
  /\ _queued_by_pokemon = ZeroByPokemon
  /\ _matches_by_pokemon = ZeroByPokemon
  /\ _early_iv_by_pokemon = ZeroByPokemon
  /\ _timeouts_by_pokemon = ZeroByPokemon
  /\ scoutTasks = {}
  /\ carried = 0
  /\ oldHolders = {}
  /\ updated = FALSE

\* the state after a startup whose geofence fetch failed, for given raw
\* priority lists
InitWith(iv, cell) ==
  /\ Constructed(iv, cell)
  /\ AppConfig_filter_with_koji = filter_with_koji
  /\ Started
  /\ _geofences = << >>
  /\ refresh_success = FALSE

Init == InitWith(<< <<150, 0>>, <<25>> >>, << <<132>> >>)

\* dict counter increment: d[k] = d.get(k, 0) + 1
Bump(d, k) == [d EXCEPT ![k] = @ + 1]
Bump2(d, t, k) == [d EXCEPT ![t][k] = @ + 1]

(***************************************************************************)
(* IVQueueManager.add                                                      *)
(***************************************************************************)
\* a duplicate check that never finds a duplicate
IsDuplicate_Never(o, d, key) == FALSE

\* add: "if key in self._entries"
IsDuplicate(o, d, key) == KeyIn(o, d, key)

\* an add that counts the sighting before it looks for a duplicate
add_CountsDuplicate(entry) ==
  LET key == unique_key(entry)
      id == Len(objs) + 1
      o2 == Append(objs, entry)
      dup == IsDuplicate(objs, _entries, key)
  IN  /\ _queued_by_type' = Bump(_queued_by_type, entry.seen_type)
      /\ _queued_by_pokemon' =
           Bump2(_queued_by_pokemon, entry.seen_type, pokemon_display(entry))
      /\ objs' = IF dup THEN objs ELSE o2
      /\ _heap' = IF dup THEN _heap ELSE heappush(o2, _heap, id)
      /\ _entries' = IF dup THEN _entries ELSE DictSet(o2, _entries, key, id)
      /\ UNCHANGED << _matches_by_type, _early_iv_by_type, _timeouts_by_type,
                      _matches_by_pokemon, _early_iv_by_pokemon,
                      _timeouts_by_pokemon >>

add(entry) ==
  LET key == unique_key(entry)
      id == Len(objs) + 1
      o2 == Append(objs, entry)
  IN  IF IsDuplicate(objs, _entries, key)
      THEN UNCHANGED << objs, _entries, _heap, stats >>
      ELSE /\ objs' = o2
           /\ _heap' = heappush(o2, _heap, id)
           /\ _entries' = DictSet(o2, _entries, key, id)
           /\ _queued_by_type' = Bump(_queued_by_type, entry.seen_type)
           /\ _queued_by_pokemon' =
                Bump2(_queued_by_pokemon, entry.seen_type, pokemon_display(entry))
           /\ UNCHANGED << _matches_by_type, _early_iv_by_type, _timeouts_by_type,
                           _matches_by_pokemon, _early_iv_by_pokemon,
                           _timeouts_by_pokemon >>

(***************************************************************************)
(* KojiGeofenceManager: the loaded geofences and their periodic refresh.   *)
(* A polygon is the open stretch of the meridian it covers.                *)
(***************************************************************************)
\* the areas of the Koji project, as _parse_geojson builds them
AreaA == [name |-> "A", lo |-> -1, hi |-> 100]
AreaB == [name |-> "B", lo |-> 250, hi |-> 450]

\* what _fetch_geofences can return: {} on any error or empty answer, else
\* the parsed feature collection
FetchResults == { << >>, << AreaA >>, << AreaA, AreaB >> }

\* a refresh that installs whatever the fetch returned
UpdatedGeofences_Overwrite(current, new_geofences) == new_geofences

\* _fetch_and_update_geofences: "if not new_geofences: ... return False"
UpdatedGeofences(current, new_geofences) ==
  IF new_geofences = << >> THEN current ELSE new_geofences

_fetch_and_update_geofences(new_geofences) ==
  /\ _geofences' = UpdatedGeofences(_geofences, new_geofences)
  /\ refresh_success' = (new_geofences # << >>)

\* is_point_in_geofence over a given dict: the first area, in dict order,
\* whose polygon contains the point; NoStr for None
AreaOf(geofences, loc) ==
  LET hits == SelectSeq(geofences, LAMBDA a : a.lo < loc /\ loc < a.hi)
  IN  IF hits = << >> THEN NoStr ELSE Head(hits).name

is_point_in_geofence(loc) == AreaOf(_geofences, loc)

\* one round of _refresh_loop, after its sleep
_refresh_loop ==
  /\ _refresh_task
  /\ \E new_geofences \in FetchResults :
       _fetch_and_update_geofences(new_geofences)
  /\ UNCHANGED << now, locks, config, lifecycle, census, objs, _entries, _heap,
                  _scout_semaphore, _current_concurrency, _active_scouts,
                  stats, scoutTasks, hist >>

(***************************************************************************)
(* webhook.filter.filter_non_iv_pokemon                                    *)
(***************************************************************************)
\* the ranks RarityManager.get_rarity_rank can answer: None, or 1, 2, ...
Ranks == 0..(iv_threshold + 1)

\* a rarity priority that forgets the rank
RarityPriority_Flat(rank) == RarityTierBase

\* priority of an auto_rarity entry: 1000 for an unknown species, else 1000 + rank
RarityPriority(rank) ==
  IF rank = NoRank THEN RarityTierBase ELSE RarityTierBase + rank

\* an area lookup that ignores the geofences
area_of_Global(p) == "GLOBAL"

\* the area a sighting is filed under: "GLOBAL", or with FILTER_WITH_KOJI the
\* geofence it lies in; NoStr when it lies in none
area_of(p) ==
  IF AppConfig_filter_with_koji THEN is_point_in_geofence(p.loc) ELSE "GLOBAL"

\* Checks 2-3 of filter_non_iv_pokemon: queue the sighting or not, and how.
\* Every path that reaches the add has passed the geofence check, and a
\* sighting outside the geofences returns on each of them.
Classify(p, ready, rank) ==
  LET skip == [ok |-> FALSE, priority |-> NoPriority, s2_cell_id |-> NoCell,
               list_type |-> "unknown"]
      cell == is_in_list(celllist, p)
      iv == is_in_list(ivlist, p)
  IN  IF p.seen_type \notin SeenTypes THEN skip
      ELSE IF area_of(p) = NoStr THEN skip
      ELSE IF p.seen_type = "nearby_cell"
      THEN IF cell.matches /\ cell.priority # NoPriority
           THEN [ok |-> TRUE, priority |-> cell.priority,
                 s2_cell_id |-> get_s2_cell_id(p.loc), list_type |-> "celllist"]
           ELSE skip
      ELSE IF iv.matches /\ iv.priority # NoPriority
      THEN [ok |-> TRUE, priority |-> iv.priority, s2_cell_id |-> NoCell,
            list_type |-> "ivlist"]
      ELSE IF auto_rarity_enabled
      THEN IF ~ready THEN skip
           ELSE IF rank = NoRank \/ rank <= iv_threshold
           THEN [ok |-> TRUE, priority |-> RarityPriority(rank),
                 s2_cell_id |-> NoCell, list_type |-> "auto_rarity"]
           ELSE skip
      ELSE skip

\* an entry that keeps the sighting's disappear_time, absent or not
QueueEntry_NoDefault(p, c) ==
  [priority |-> c.priority,
   timestamp |-> now,
   pokemon_id |-> p.pokemon_id,
   form |-> p.form,
   area |-> area_of(p),
   loc |-> p.loc,
   spawnpoint_id |-> p.spawnpoint_id,
   encounter_id |-> p.encounter_id,
   disappear_time |-> p.disappear_time,
   seen_type |-> p.seen_type,
   s2_cell_id |-> c.s2_cell_id,
   list_type |-> c.list_type,
   is_removed |-> FALSE,
   is_scouting |-> FALSE,
   was_scouted |-> FALSE,
   scout_started_at |-> NoTime]

\* QueueEntry(...) as filter_non_iv_pokemon constructs it; timestamp defaults
\* to time.time()
QueueEntry(p, c) ==
  [priority |-> c.priority,
   timestamp |-> now,
   pokemon_id |-> p.pokemon_id,
   form |-> p.form,
   area |-> area_of(p),
   loc |-> p.loc,
   spawnpoint_id |-> p.spawnpoint_id,
   encounter_id |-> p.encounter_id,
   disappear_time |-> IF p.disappear_time # NoTime THEN p.disappear_time
                      ELSE now + DefaultDisappearDelay,
   seen_type |-> p.seen_type,
   s2_cell_id |-> c.s2_cell_id,
   list_type |-> c.list_type,
   is_removed |-> FALSE,
   is_scouting |-> FALSE,
   was_scouted |-> FALSE,
   scout_started_at |-> NoTime]

\* ready and rank are what RarityManager.is_ready / get_rarity_rank answer.
filter_non_iv_pokemon(p, ready, rank) ==
  LET c == Classify(p, ready, rank)
  IN  /\ IF c.ok
         THEN add(QueueEntry(p, c))
         ELSE UNCHANGED << objs, _entries, _heap, stats >>
      /\ UNCHANGED << now, locks, config, lifecycle, koji, _scout_semaphore,
                      _current_concurrency, _active_scouts, scoutTasks, hist >>

\* the feed delivers a sighting without IV, while fewer than n entries were
\* accepted so far; the RarityManager is represented by its answers
FeedNonIvUpTo(n) ==
  /\ _site
  /\ Len(objs) < n
  /\ \E p \in World, ready \in BOOLEAN, rank \in Ranks :
       filter_non_iv_pokemon(p, ready, rank)
  /\ UNCHANGED census

FeedNonIv == FeedNonIvUpTo(MaxEntries)

(***************************************************************************)
(* Removal by an IV sighting: remove_by_match, remove_by_cell_match,       *)
(* _remove_entry and webhook.filter.filter_iv_pokemon                      *)
(***************************************************************************)
\* the first entry of a dict scan: s holds the hits in iteration order
FirstEntry(s) ==
  IF s = << >> THEN NoEntry ELSE Head(s)

\* a remove_by_match that scans by proximity before it looks at the id
remove_by_match_ProximityFirst(o, d, encounter_id, loc) ==
  LET near == FirstEntry(SelectSeq(d, LAMBDA x :
                /\ ~o[x].is_removed
                /\ is_within_distance(o[x].loc, loc,
                                      COORDINATE_MATCH_THRESHOLD_METERS)))
      exact == IF encounter_id # NoStr
               THEN FirstEntry(SelectSeq(d, LAMBDA x :
                      /\ o[x].encounter_id = encounter_id
                      /\ ~o[x].is_removed))
               ELSE NoEntry
  IN  IF near # NoEntry THEN near ELSE exact

\* a remove_by_match that falls back to proximity only without an id
remove_by_match_FallbackWithoutId(o, d, encounter_id, loc) ==
  IF encounter_id # NoStr
  THEN FirstEntry(SelectSeq(d, LAMBDA x :
         /\ o[x].encounter_id = encounter_id
         /\ ~o[x].is_removed))
  ELSE FirstEntry(SelectSeq(d, LAMBDA x :
         /\ ~o[x].is_removed
         /\ is_within_distance(o[x].loc, loc,
                               COORDINATE_MATCH_THRESHOLD_METERS)))

\* remove_by_match: the entry it removes (NoEntry when it returns None)
remove_by_match(o, d, encounter_id, loc) ==
  LET exact == IF encounter_id # NoStr
               THEN FirstEntry(SelectSeq(d, LAMBDA x :
                      /\ o[x].encounter_id = encounter_id
                      /\ ~o[x].is_removed))
               ELSE NoEntry
      near == FirstEntry(SelectSeq(d, LAMBDA x :
                /\ ~o[x].is_removed
                /\ is_within_distance(o[x].loc, loc,
                                      COORDINATE_MATCH_THRESHOLD_METERS)))
  IN  IF exact # NoEntry THEN exact ELSE near

\* a cell match that also takes entries still waiting for dispatch
remove_by_cell_match_Pending(o, d, pokemon_id, form, s2_cell_id) ==
  FirstEntry(SelectSeq(d, LAMBDA x :
    /\ ~o[x].is_removed
    /\ o[x].seen_type = "nearby_cell"
    /\ o[x].s2_cell_id = s2_cell_id
    /\ o[x].pokemon_id = pokemon_id
    /\ (form = NoForm \/ o[x].form = form)))

\* remove_by_cell_match: the entry it removes (NoEntry when it returns None)
remove_by_cell_match(o, d, pokemon_id, form, s2_cell_id) ==
  FirstEntry(SelectSeq(d, LAMBDA x :
    /\ ~o[x].is_removed
    /\ o[x].seen_type = "nearby_cell"
    /\ o[x].s2_cell_id = s2_cell_id
    /\ o[x].pokemon_id = pokemon_id
    /\ (form = NoForm \/ o[x].form = form)
    /\ (o[x].is_scouting \/ o[x].was_scouted)))

\* a removal that also clears the scouting flags of the entry
MarkRemoved_ClearFlags(o, ids) ==
  [i \in 1..Len(o) |->
     IF i \in ids
     THEN [o[i] EXCEPT !.is_removed = TRUE, !.is_scouting = FALSE,
                       !.was_scouted = FALSE]
     ELSE o[i]]

\* entry.is_removed = True, for each of ids
MarkRemoved(o, ids) ==
  [i \in 1..Len(o) |-> IF i \in ids THEN [o[i] EXCEPT !.is_removed = TRUE]
                       ELSE o[i]]

\* a removal that leaves the dict as it is
DropEntries_Keep(o, d, ids) == d

\* the dict after the keys of ids were popped / deleted
DropEntries(o, d, ids) ==
  SelectSeq(d, LAMBDA x : \A i \in ids : unique_key(o[x]) # unique_key(o[i]))

\* is_in_any_list
is_in_any_list(p) ==
  is_in_list(ivlist, p).matches \/ is_in_list(celllist, p).matches

\* a filter that also takes the cell match when remove_by_match found one
MatchedEntries_Both(byMatch, byCell) == {byMatch, byCell} \ {NoEntry}

\* "removed = remove_by_match(...); if not removed: removed =
\* remove_by_cell_match(...)": the entries one IV sighting removes
MatchedEntries(byMatch, byCell) ==
  IF byMatch # NoEntry THEN {byMatch}
  ELSE IF byCell # NoEntry THEN {byCell}
  ELSE {}

\* a test that forgets the scouts still in flight
WasDispatched_ScoutedOnly(e) == e.was_scouted

\* "if removed.was_scouted or removed.is_scouting"
WasDispatched(e) == e.was_scouted \/ e.is_scouting

\* record_match / record_early_iv for every removed entry: the counters are
\* keyed by the seen_type of the entry and the display of the sighting
filter_iv_pokemon(p) ==
  LET byMatch == remove_by_match(objs, _entries, p.encounter_id, p.loc)
      byCell == remove_by_cell_match(objs, _entries, p.pokemon_id, p.form,
                                     get_s2_cell_id(p.loc))
      removed == MatchedEntries(byMatch, byCell)
      matched == { x \in removed : WasDispatched(objs[x]) }
      early == removed \ matched
      disp == pokemon_display(p)
      CountIn(S, t) == Cardinality({ x \in S : objs[x].seen_type = t })
  IN  /\ IF (~is_in_any_list(p) /\ ~auto_rarity_enabled) \/ area_of(p) = NoStr
         THEN UNCHANGED << objs, _entries, stats >>
         ELSE /\ objs' = MarkRemoved(objs, removed)
              /\ _entries' = DropEntries(objs, _entries, removed)
              /\ _matches_by_type' =
                   [t \in SeenTypes |-> _matches_by_type[t] + CountIn(matched, t)]
              /\ _matches_by_pokemon' =
                   [t \in SeenTypes |->
                      [_matches_by_pokemon[t] EXCEPT ![disp] = @ + CountIn(matched, t)]]
              /\ _early_iv_by_type' =
                   [t \in SeenTypes |-> _early_iv_by_type[t] + CountIn(early, t)]
              /\ _early_iv_by_pokemon' =
                   [t \in SeenTypes |->
                      [_early_iv_by_pokemon[t] EXCEPT ![disp] = @ + CountIn(early, t)]]
              /\ UNCHANGED << _queued_by_type, _queued_by_pokemon,
                              _timeouts_by_type, _timeouts_by_pokemon >>
      /\ UNCHANGED << now, locks, config, lifecycle, koji, census, _heap, _scout_semaphore,
                      _current_concurrency, _active_scouts, scoutTasks, hist >>

FeedIv == _site /\ \E p \in World : filter_iv_pokemon(p)

(***************************************************************************)
(* webhook.filter.process_pokemon_webhook: a sighting carries any subset   *)
(* of the three IV fields.                                                 *)
(***************************************************************************)
IvFields == {"individual_attack", "individual_defense", "individual_stamina"}

\* PokemonData.has_iv
has_iv(ivs) == "individual_attack" \in ivs

process_pokemon_webhook(p, ivs) ==
  IF has_iv(ivs)
  THEN filter_iv_pokemon(p)
  ELSE /\ \E ready \in BOOLEAN, rank \in Ranks :
            filter_non_iv_pokemon(p, ready, rank)
       /\ UNCHANGED census

\* handle_webhook: the feed delivers a sighting; sightings to be queued
\* stop once MaxEntries entries were accepted
FeedWebhook ==
  /\ _site
  /\ \E p \in World, ivs \in SUBSET IvFields :
       /\ has_iv(ivs) \/ Len(objs) < MaxEntries
       /\ process_pokemon_webhook(p, ivs)

(***************************************************************************)
(* RarityManager: the census of active spawns and the rarity ranks.        *)
(* _actives[area] and _rank_cache[area] are the inner dicts in insertion   *)
(* order; a species key is "id" or "id:form" as a tuple.  The global       *)
(* ranking, which nothing reads but the statistics, is left out.           *)
(***************************************************************************)
\* RarityManager.get_instance: the first call constructs the instance and
\* initialize starts its two background tasks
RarityManager_get_instance ==
  IF _start_time = NoTime
  THEN /\ _start_time' = now
       /\ _ranking_task' = TRUE
       /\ RarityManager_cleanup_task' = TRUE
  ELSE UNCHANGED << _start_time, _ranking_task, RarityManager_cleanup_task >>

\* the inner dict of an area, empty when the area is unknown
DictOf(d, area) == IF area \in DOMAIN d THEN d[area] ELSE << >>

\* position of a key in an inner dict, 0 when absent
KeyIndex(inner, key) ==
  IF \E i \in 1..Len(inner) : inner[i].pokemon_key = key
  THEN CHOOSE i \in 1..Len(inner) : inner[i].pokemon_key = key
  ELSE 0

\* add_spawn: self._actives[area][pokemon_key].append(despawn_time)
add_spawn(pokemon_key, area, despawn_time) ==
  LET inner == DictOf(_actives, area)
      i == KeyIndex(inner, pokemon_key)
      updated_inner ==
        IF i = 0
        THEN Append(inner, [pokemon_key |-> pokemon_key,
                            despawn_times |-> << despawn_time >>])
        ELSE [inner EXCEPT ![i].despawn_times = Append(@, despawn_time)]
  IN  /\ _actives' = [a \in DOMAIN _actives \cup {area} |->
                        IF a = area THEN updated_inner ELSE _actives[a]]
      /\ _total_spawns_tracked' = _total_spawns_tracked + 1

\* a census that is ready from the start
is_ready_Always == TRUE

\* is_ready
is_ready == _status = "READY"

\* "cached_key == str(pokemon_id) or cached_key.startswith(f'{pokemon_id}:')"
IsFormOf(key, pokemon_id) == key[1] = pokemon_id

\* get_rarity_rank: exact key, then the bare id, then any cached form, then
\* the pending rank of a species that is active but not ranked yet
get_rarity_rank(pokemon_id, form, area) ==
  LET keys_to_try == IF form # NoForm
                     THEN << << pokemon_id, form >>, << pokemon_id >> >>
                     ELSE << << pokemon_id >> >>
      lookup_area == IF ~AppConfig_filter_with_koji THEN "GLOBAL" ELSE area
      cache == DictOf(_rank_cache, lookup_area)
      exact == SelectSeq(keys_to_try, LAMBDA k : KeyIndex(cache, k) # 0)
      any_form == SelectSeq(cache, LAMBDA r : IsFormOf(r.pokemon_key, pokemon_id))
      active == DictOf(_actives, lookup_area)
  IN  IF exact # << >> THEN cache[KeyIndex(cache, Head(exact))].rank
      ELSE IF any_form # << >> THEN Head(any_form).rank
      ELSE IF \E i \in 1..Len(active) : IsFormOf(active[i].pokemon_key, pokemon_id)
      THEN Len(cache) + PendingRankBase
      ELSE NoRank

\* process_census_webhook: a spawn that has not despawned and lies in an
\* area is added to the census
process_census_webhook(p) ==
  LET current_time == now
      area == area_of(p)
  IN  /\ IF (p.disappear_time # NoTime /\ p.disappear_time < current_time)
            \/ area = NoStr
         THEN UNCHANGED census
         ELSE /\ RarityManager_get_instance
              /\ add_spawn(pokemon_display(p), area,
                           IF p.disappear_time # NoTime THEN p.disappear_time
                           ELSE current_time + CensusDisappearDelay)
              /\ UNCHANGED << _status, _rank_cache >>
      /\ UNCHANGED << now, locks, config, lifecycle, koji, objs, _entries, _heap,
                      _scout_semaphore, _current_concurrency, _active_scouts,
                      stats, scoutTasks, hist >>

\* the census feed delivers a spawn, while fewer than n were tracked so far
FeedCensusUpTo(n) ==
  /\ _site
  /\ _total_spawns_tracked < n
  /\ \E p \in World : process_census_webhook(p)

FeedCensus == FeedCensusUpTo(MaxSpawns)

\* _cleanup_expired: keep the despawn times still ahead, drop emptied keys
\* and emptied areas
ActiveAfterCleanup(actives, current_time) ==
  LET kept(inner) ==
        SelectSeq([i \in 1..Len(inner) |->
                     [inner[i] EXCEPT !.despawn_times =
                        SelectSeq(@, LAMBDA t : t > current_time)]],
                  LAMBDA r : r.despawn_times # << >>)
      left == { a \in DOMAIN actives : kept(actives[a]) # << >> }
  IN  [a \in left |-> kept(actives[a])]

\* one round of RarityManager._cleanup_loop
_cleanup_expired ==
  /\ RarityManager_cleanup_task
  /\ _actives' = ActiveAfterCleanup(_actives, now)
  /\ UNCHANGED << _status, _start_time, _rank_cache, _total_spawns_tracked,
                  _ranking_task, RarityManager_cleanup_task >>
  /\ UNCHANGED << now, locks, config, lifecycle, koji, objs, _entries, _heap,
                  _scout_semaphore, _current_concurrency, _active_scouts,
                  stats, scoutTasks, hist >>

\* the count of a species: len(despawn_times)
CountOf(r) == Len(r.despawn_times)

\* list.sort(key=count) is stable: x goes behind every element whose count
\* is not larger
RECURSIVE InsertByCount(_, _)
InsertByCount(sorted, x) ==
  IF sorted = << >> THEN << x >>
  ELSE IF CountOf(Head(sorted)) <= CountOf(x)
       THEN << Head(sorted) >> \o InsertByCount(Tail(sorted), x)
       ELSE << x >> \o sorted

\* a sort that puts the most frequent species first
RECURSIVE SortByCount_Descending(_)
SortByCount_Descending(counts) ==
  IF counts = << >> THEN << >>
  ELSE LET rest == SortByCount_Descending(Tail(counts))
           before == SelectSeq(rest, LAMBDA r : CountOf(r) > CountOf(Head(counts)))
           after == SelectSeq(rest, LAMBDA r : CountOf(r) <= CountOf(Head(counts)))
       IN  before \o << Head(counts) >> \o after

\* counts.sort(key=lambda x: x[1])
RECURSIVE SortByCount(_)
SortByCount(counts) ==
  IF counts = << >> THEN << >>
  ELSE InsertByCount(SortByCount(SubSeq(counts, 1, Len(counts) - 1)),
                     counts[Len(counts)])

\* _recalculate_rankings for one area: the species with a count above 0,
\* sorted by count, ranked from 1
RankArea(inner) ==
  LET counts == SortByCount(SelectSeq(inner, LAMBDA r : CountOf(r) > 0))
  IN  [idx \in 1..Len(counts) |->
         [pokemon_key |-> counts[idx].pokemon_key, rank |-> idx]]

\* _recalculate_rankings: a new cache for exactly the areas of _actives
recalculate_rankings(actives) ==
  [a \in DOMAIN actives |-> RankArea(actives[a])]

\* a ranking round that ends the calibration without looking at the clock
_ranking_loop_ReadyAtOnce ==
  /\ _ranking_task
  /\ _rank_cache' = recalculate_rankings(_actives)
  /\ _status' = "READY"
  /\ UNCHANGED << _start_time, _actives, _total_spawns_tracked, _ranking_task,
                  RarityManager_cleanup_task >>
  /\ UNCHANGED << now, locks, config, lifecycle, koji, objs, _entries, _heap,
                  _scout_semaphore, _current_concurrency, _active_scouts,
                  stats, scoutTasks, hist >>

\* one round of _ranking_loop, after its sleep: recalculate, then leave
\* calibration once calibration_minutes have passed since _start_time
_ranking_loop ==
  /\ _ranking_task
  /\ _rank_cache' = recalculate_rankings(_actives)
  /\ _status' = IF /\ _status = "CALIBRATING"
                   /\ now - _start_time >= calibration_minutes * SecondsPerMinute
                THEN "READY" ELSE _status
  /\ UNCHANGED << _start_time, _actives, _total_spawns_tracked, _ranking_task,
                  RarityManager_cleanup_task >>
  /\ UNCHANGED << now, locks, config, lifecycle, koji, objs, _entries, _heap,
                  _scout_semaphore, _current_concurrency, _active_scouts,
                  stats, scoutTasks, hist >>

\* filter_non_iv_pokemon asking the RarityManager itself: the auto_rarity
\* branch fetches the instance, then reads is_ready and get_rarity_rank
UsesRarity(p) ==
  /\ p.seen_type \in SeenTypes
  /\ p.seen_type # "nearby_cell"
  /\ ~(is_in_list(ivlist, p).matches /\ is_in_list(ivlist, p).priority # NoPriority)
  /\ auto_rarity_enabled

filter_non_iv_pokemon_census(p) ==
  /\ IF UsesRarity(p) THEN RarityManager_get_instance
     ELSE UNCHANGED << _start_time, _ranking_task, RarityManager_cleanup_task >>
  /\ UNCHANGED << _status, _actives, _rank_cache, _total_spawns_tracked >>
  /\ filter_non_iv_pokemon(p, is_ready,
                           get_rarity_rank(p.pokemon_id, p.form, area_of(p)))

FeedNonIvCensus ==
  /\ _site
  /\ Len(objs) < MaxEntries
  /\ \E p \in World : filter_non_iv_pokemon_census(p)

\* time.time() moves on by a minute
TickMinute ==
  /\ now < MaxTime * SecondsPerMinute
  /\ now' = now + SecondsPerMinute
  /\ UNCHANGED << config, locks, lifecycle, koji, census, objs, _entries, _heap,
                  _scout_semaphore, _current_concurrency, _active_scouts,
                  stats, scoutTasks, hist >>

(***************************************************************************)
(* Dispatcher: ScoutCoordinator._run_loop, get_next_for_scout,             *)
(* _execute_scout and mark_scout_complete                                  *)
(***************************************************************************)
\* a staleness test that only asks whether the key is in the dict
IsStale_KeyOnly(o, d, e) == ~KeyIn(o, d, unique_key(o[e]))

\* get_next_for_scout: "key not in self._entries or entry.is_removed or
\* entry.is_scouting or entry.was_scouted"
IsStale(o, d, e) ==
  \/ ~KeyIn(o, d, unique_key(o[e]))
  \/ o[e].is_removed
  \/ o[e].is_scouting
  \/ o[e].was_scouted

\* the while loop of get_next_for_scout: the entry found and the heap left
RECURSIVE NextLoop(_, _, _)
NextLoop(o, d, heap) ==
  IF heap = << >> THEN [entry |-> NoEntry, heap |-> << >>]
  ELSE LET r == heappop(o, heap)
       IN  IF IsStale(o, d, heap[1]) THEN NextLoop(o, d, r.heap)
           ELSE [entry |-> heap[1], heap |-> r.heap]

\* an acquire that takes no slot
Acquire_NoDecrement(value) == value

\* asyncio.Semaphore.acquire with a free slot: _value -= 1
Acquire(value) == value - 1

\* a release that gives no slot back
Release_Lost(value) == value

\* asyncio.Semaphore.release: _value += 1
Release(value) == value + 1

\* One iteration of _run_loop ("while self._running").  With no free slot (locked(), _value = 0) the
\* call returns None at once; otherwise it acquires, searches the heap, and
\* either hands the entry to a new _execute_scout task or releases the slot.
get_next_for_scout ==
  LET r == NextLoop(objs, _entries, _heap)
  IN  /\ _running
      /\ IF _scout_semaphore = 0
         THEN UNCHANGED << objs, _heap, _scout_semaphore, _active_scouts,
                           scoutTasks >>
         ELSE IF r.entry # NoEntry
         THEN /\ _scout_semaphore' = Acquire(_scout_semaphore)
              /\ _heap' = r.heap
              /\ objs' = [objs EXCEPT ![r.entry].is_scouting = TRUE,
                                      ![r.entry].scout_started_at = now]
              /\ _active_scouts' = _active_scouts + 1
              /\ scoutTasks' = scoutTasks \cup {r.entry}
         ELSE /\ _heap' = r.heap
              /\ _scout_semaphore' = Release(Acquire(_scout_semaphore))
              /\ UNCHANGED << objs, _active_scouts, scoutTasks >>
      /\ UNCHANGED << now, locks, config, lifecycle, koji, census, _entries, _current_concurrency, stats, hist >>

Max(a, b) == IF a >= b THEN a ELSE b

\* mark_scout_complete keeps is_scouting set
Completed_StillScouting(e) == [e EXCEPT !.was_scouted = TRUE]

\* mark_scout_complete: the flags of the entry afterwards
Completed(e) == [e EXCEPT !.is_scouting = FALSE, !.was_scouted = TRUE]

\* a completion that sends a failed scout back to pending
mark_scout_complete_SuccessOnly(e, success) ==
  /\ objs' = [objs EXCEPT ![e].is_scouting = FALSE, ![e].was_scouted = success]
  /\ _active_scouts' = Max(0, _active_scouts - 1)
  /\ _scout_semaphore' = _scout_semaphore + 1
  /\ scoutTasks' = scoutTasks \ {e}
  /\ oldHolders' = oldHolders \ {e}
  /\ UNCHANGED << now, locks, config, lifecycle, koji, census, _entries, _heap, _current_concurrency,
                  stats, carried, updated >>

\* a completion that puts the entry of a failed scout back in line
mark_scout_complete_Retry(e, success) ==
  LET o2 == [objs EXCEPT ![e].is_scouting = FALSE, ![e].was_scouted = success]
  IN  /\ objs' = o2
      /\ _heap' = IF success THEN _heap ELSE heappush(o2, _heap, e)
      /\ _active_scouts' = Max(0, _active_scouts - 1)
      /\ _scout_semaphore' = _scout_semaphore + 1
      /\ scoutTasks' = scoutTasks \ {e}
      /\ oldHolders' = oldHolders \ {e}
      /\ UNCHANGED << now, locks, config, lifecycle, koji, census, _entries,
                      _current_concurrency, stats, carried, updated >>

\* a completion that files the entry under its key again
mark_scout_complete_Requeue(e, success) ==
  /\ objs' = [objs EXCEPT ![e] = Completed(@)]
  /\ _entries' = DictSet(objs, _entries, unique_key(objs[e]), e)
  /\ _active_scouts' = Max(0, _active_scouts - 1)
  /\ _scout_semaphore' = _scout_semaphore + 1
  /\ scoutTasks' = scoutTasks \ {e}
  /\ oldHolders' = oldHolders \ {e}
  /\ UNCHANGED << now, locks, config, lifecycle, koji, census, _heap,
                  _current_concurrency, stats, carried, updated >>

\* The finally block of _execute_scout; success is the outcome of the RPC.
\* The slot is released into whatever semaphore _scout_semaphore refers to now.
mark_scout_complete(e, success) ==
  /\ objs' = [objs EXCEPT ![e] = Completed(@)]
  /\ _active_scouts' = Max(0, _active_scouts - 1)
  /\ _scout_semaphore' = _scout_semaphore + 1
  /\ scoutTasks' = scoutTasks \ {e}
  /\ oldHolders' = oldHolders \ {e}
  /\ UNCHANGED << now, locks, config, lifecycle, koji, census, _entries, _heap, _current_concurrency, stats,
                  carried, updated >>

\* the outcomes the Scout RPC can have: it cannot succeed on a closed session
ScoutOutcomes == IF _session THEN BOOLEAN ELSE {FALSE}

\* an _execute_scout task reaches its finally block
ScoutDone ==
  \E e \in scoutTasks, success \in ScoutOutcomes : mark_scout_complete(e, success)

(***************************************************************************)
(* update_concurrency                                                      *)
(***************************************************************************)
update_concurrency(new_concurrency) ==
  /\ _scout_semaphore' = new_concurrency
  /\ _current_concurrency' = new_concurrency
  /\ carried' = Cardinality(scoutTasks)
  /\ oldHolders' = scoutTasks
  /\ updated' = TRUE
  /\ UNCHANGED << now, locks, config, lifecycle, koji, census, objs, _entries, _heap, _active_scouts, stats,
                  scoutTasks >>

Reload == \E n \in 1..MaxConcurrency : update_concurrency(n)

(***************************************************************************)
(* Janitor: LazyIVQueueApp._cleanup_loop, cleanup_expired and              *)
(* cleanup_timed_out_scouts                                                *)
(***************************************************************************)
\* a sweep that already expires an entry at its disappear_time
ExpiredEntries_AtDespawn(o, d, current_time) ==
  { x \in DictValues(d) :
      o[x].disappear_time # NoTime /\ o[x].disappear_time <= current_time }

\* cleanup_expired: the entries it removes from dict d
ExpiredEntries(o, d, current_time) ==
  { x \in DictValues(d) :
      o[x].disappear_time # NoTime /\ o[x].disappear_time < current_time }

\* a sweep that already removes at the threshold
TimedOutEntries_AtThreshold(o, d, current_time) ==
  { x \in DictValues(d) :
      /\ o[x].scout_started_at # NoTime
      /\ current_time - o[x].scout_started_at >= timeout_iv }

\* cleanup_timed_out_scouts: the entries it removes from dict d
TimedOutEntries(o, d, current_time) ==
  { x \in DictValues(d) :
      /\ o[x].scout_started_at # NoTime
      /\ current_time - o[x].scout_started_at > timeout_iv }

\* One tick of _cleanup_loop: cleanup_expired, then cleanup_timed_out_scouts
\* on what is left, which counts each entry it removes as a timeout.
cleanup_loop ==
  LET expired == ExpiredEntries(objs, _entries, now)
      d1 == DropEntries(objs, _entries, expired)
      timedOut == TimedOutEntries(objs, d1, now)
  IN  /\ _cleanup_task
      /\ objs' = MarkRemoved(objs, expired \cup timedOut)
      /\ _entries' = DropEntries(objs, d1, timedOut)
      /\ _timeouts_by_type' =
           [t \in SeenTypes |-> _timeouts_by_type[t]
              + Cardinality({ x \in timedOut : objs[x].seen_type = t })]
      /\ _timeouts_by_pokemon' =
           [t \in SeenTypes |-> [disp \in Displays |-> _timeouts_by_pokemon[t][disp]
              + Cardinality({ x \in timedOut : /\ objs[x].seen_type = t
                                               /\ pokemon_display(objs[x]) = disp })]]
      /\ UNCHANGED << now, locks, config, lifecycle, koji, census, _heap, _scout_semaphore, _current_concurrency,
                      _active_scouts, _queued_by_type, _matches_by_type,
                      _early_iv_by_type, _queued_by_pokemon, _matches_by_pokemon,
                      _early_iv_by_pokemon, scoutTasks, hist >>

\* time.time() moves on
Tick ==
  /\ now < MaxTime
  /\ now' = now + 1
  /\ UNCHANGED << config, locks, lifecycle, koji, census, objs, _entries, _heap, _scout_semaphore,
                  _current_concurrency, _active_scouts, stats, scoutTasks, hist >>

\* time.time() moves on by the default lifetime of an entry
TickDefaultDelay ==
  /\ now + DefaultDisappearDelay < MaxTime * DefaultDisappearDelay
  /\ now' = now + DefaultDisappearDelay
  /\ UNCHANGED << config, locks, lifecycle, koji, census, objs, _entries, _heap,
                  _scout_semaphore, _current_concurrency, _active_scouts,
                  stats, scoutTasks, hist >>

(***************************************************************************)
(* config.reload_config: re-reads config.json into the module globals.     *)
(* The file's lists and scout concurrency are the inputs; its other values *)
(* are those of the running configuration.  Nothing else is called.        *)
(***************************************************************************)
\* the ivlists a config.json is drawn with
ReloadLists == { << <<150, 0>>, <<25>> >>, << <<10>> >> }

reload_config(new_ivlist, new_celllist, new_concurrency) ==
  /\ ivlist' = new_ivlist
  /\ celllist' = new_celllist
  /\ AppConfig_concurrency_scout' = new_concurrency
  /\ UNCHANGED AppConfig_filter_with_koji
  /\ UNCHANGED << now, locks, lifecycle, koji, census, objs, _entries, _heap, _scout_semaphore,
                  _current_concurrency, _active_scouts, stats, scoutTasks, hist >>

ReloadConfig ==
  \E l \in ReloadLists, n \in 1..MaxConcurrency : reload_config(l, celllist, n)

(***************************************************************************)
(* Shutdown: LazyIVQueueApp.shutdown cancels the cleanup task, then        *)
(* ScoutCoordinator.stop clears _running and cancels the _run_loop task,   *)
(* and, once that task has ended, closes the client session.  Each await   *)
(* between them lets other tasks run.                                      *)
(***************************************************************************)
\* shutdown: self._cleanup_task.cancel()
shutdown ==
  /\ app_pc = "run"
  /\ _cleanup_task
  /\ _cleanup_task' = FALSE
  /\ app_pc' = "shutdown"
  /\ UNCHANGED << now, locks, config, koji, census, _site, _refresh_task, _running, _session, objs, _entries, _heap,
                  _scout_semaphore, _current_concurrency, _active_scouts, stats,
                  scoutTasks, hist >>

\* stop: self._running = False; self._task.cancel()
stop ==
  /\ app_pc = "shutdown"
  /\ ~_cleanup_task
  /\ _running
  /\ _running' = FALSE
  /\ UNCHANGED app_pc
  /\ UNCHANGED << now, locks, config, koji, census, _site, _refresh_task, _cleanup_task, _session, objs, _entries, _heap,
                  _scout_semaphore, _current_concurrency, _active_scouts, stats,
                  scoutTasks, hist >>

\* stop, after "await self._task": self._client.__aexit__ closes the session
stop_close ==
  /\ app_pc = "shutdown"
  /\ ~_running
  /\ _session
  /\ _session' = FALSE
  /\ UNCHANGED app_pc
  /\ UNCHANGED << now, locks, config, koji, census, _site, _refresh_task, _cleanup_task, _running, objs, _entries, _heap,
                  _scout_semaphore, _current_concurrency, _active_scouts, stats,
                  scoutTasks, hist >>

\* shutdown: await self._server.shutdown() stops the site
LazyIVQueueServer_shutdown ==
  /\ app_pc = "shutdown"
  /\ ~_session
  /\ _site
  /\ _site' = FALSE
  /\ UNCHANGED << now, locks, config, app_pc, _cleanup_task, _running, _session,
                  _refresh_task, koji, census, objs, _entries, _heap,
                  _scout_semaphore, _current_concurrency, _active_scouts,
                  stats, scoutTasks, hist >>

\* shutdown: await self._geofence_manager.shutdown() cancels the refresh
\* task; then shutdown returns.  RarityManager.stop has no caller.
KojiGeofenceManager_shutdown ==
  /\ app_pc = "shutdown"
  /\ ~_site
  /\ _refresh_task
  /\ _refresh_task' = FALSE
  /\ app_pc' = "done"
  /\ UNCHANGED << now, locks, config, _cleanup_task, _running, _session, _site,
                  koji, census, objs, _entries, _heap, _scout_semaphore,
                  _current_concurrency, _active_scouts, stats, scoutTasks,
                  hist >>

(***************************************************************************)
(* Startup: LazyIVQueueApp.start brings the components up one after the    *)
(* other; app_pc names the component it starts next.                       *)
(***************************************************************************)
\* an order that starts the HTTP server last
StartOrder_ServerLast ==
  << "geofences", "queue", "coordinator", "cleanup", "server" >>

\* the order of the statements of start
StartOrder == << "geofences", "queue", "server", "coordinator", "cleanup" >>

\* the position after starting component c
After(c) ==
  LET i == CHOOSE k \in 1..Len(StartOrder) : StartOrder[k] = c
  IN  IF i = Len(StartOrder) THEN "run" ELSE StartOrder[i + 1]

\* KojiGeofenceManager.initialize: fetch at once, then start the refresh task
initialize ==
  /\ app_pc = "geofences"
  /\ \E new_geofences \in FetchResults :
       _fetch_and_update_geofences(new_geofences)
  /\ _refresh_task' = TRUE
  /\ app_pc' = After("geofences")
  /\ UNCHANGED << now, locks, config, _cleanup_task, _running, _session, _site,
                  census, objs, _entries, _heap, _scout_semaphore,
                  _current_concurrency, _active_scouts, stats, scoutTasks,
                  hist >>

\* IVQueueManager.get_instance: the queue, empty as constructed, is ready
get_instance ==
  /\ app_pc = "queue"
  /\ app_pc' = After("queue")
  /\ UNCHANGED << now, locks, config, _cleanup_task, _running, _session, _site,
                  _refresh_task, koji, census, objs, _entries, _heap,
                  _scout_semaphore, _current_concurrency, _active_scouts,
                  stats, scoutTasks, hist >>

\* LazyIVQueueServer.start: the routes are served once site.start returns
LazyIVQueueServer_start ==
  /\ app_pc = "server"
  /\ _site' = TRUE
  /\ app_pc' = After("server")
  /\ UNCHANGED << now, locks, config, _cleanup_task, _running, _session,
                  _refresh_task, koji, census, objs, _entries, _heap,
                  _scout_semaphore, _current_concurrency, _active_scouts,
                  stats, scoutTasks, hist >>

\* ScoutCoordinator.start: _running, the client session, the _run_loop task
ScoutCoordinator_start ==
  /\ app_pc = "coordinator"
  /\ ~_running
  /\ _running' = TRUE
  /\ _session' = TRUE
  /\ app_pc' = After("coordinator")
  /\ UNCHANGED << now, locks, config, _cleanup_task, _site, _refresh_task, koji,
                  census, objs, _entries, _heap, _scout_semaphore,
                  _current_concurrency, _active_scouts, stats, scoutTasks,
                  hist >>

\* start: self._cleanup_task = asyncio.create_task(self._cleanup_loop())
create_cleanup_task ==
  /\ app_pc = "cleanup"
  /\ _cleanup_task' = TRUE
  /\ app_pc' = After("cleanup")
  /\ UNCHANGED << now, locks, config, _running, _session, _site, _refresh_task,
                  koji, census, objs, _entries, _heap, _scout_semaphore,
                  _current_concurrency, _active_scouts, stats, scoutTasks,
                  hist >>

(***************************************************************************)
(* The asyncio.Locks.  A handler is the sequence of the lock operations it *)
(* makes, in program order; what it does to the queue or the census        *)
(* between them is what the actions above do in one step.  The handlers    *)
(* are interleaved at every lock operation, which is more than the event   *)
(* loop allows.  The semaphore of get_next_for_scout is no lock: it is     *)
(* acquired only with a free slot (the Dispatcher section).                *)
(***************************************************************************)
\* "async with lock:" around the lock operations of its body
Locked(lock, body) ==
  << [op |-> "acquire", lock |-> lock] >> \o body
     \o << [op |-> "release", lock |-> lock] >>

\* handlers whose get_instance calls add to the queue under the class lock
LockOps_Nested(h) ==
  Locked("IVQueueManager._lock", Locked("_queue_lock", << >>))

\* The lock operations of one run of a handler, on its longest path
\* (FILTER_WITH_KOJI and auto rarity on).  get_instance awaits initialize
\* under the class lock, and no initialize takes a lock.
LockOps(h) ==
  LET IVQueueManager_lock == Locked("IVQueueManager._lock", << >>)
      RarityManager_lock == Locked("RarityManager._lock", << >>)
      KojiGeofenceManager_lock == Locked("KojiGeofenceManager._lock", << >>)
      _queue_lock == Locked("_queue_lock", << >>)
      _manager_lock == Locked("_manager_lock", << >>)
  IN  CASE h = "filter_non_iv_pokemon" ->
             \* RarityManager.get_instance, KojiGeofenceManager.get_instance,
             \* IVQueueManager.get_instance, add
             RarityManager_lock \o KojiGeofenceManager_lock
               \o IVQueueManager_lock \o _queue_lock
        [] h = "filter_iv_pokemon" ->
             \* the two get_instance, remove_by_match, remove_by_cell_match
             KojiGeofenceManager_lock \o IVQueueManager_lock
               \o _queue_lock \o _queue_lock
        [] h = "process_census_webhook" ->
             \* the two get_instance, add_spawn
             KojiGeofenceManager_lock \o RarityManager_lock \o _manager_lock
        [] h = "_run_loop" ->
             \* get_instance, get_next_for_scout
             IVQueueManager_lock \o _queue_lock
        [] h = "_execute_scout" ->
             \* get_instance, the RPC, mark_scout_complete
             IVQueueManager_lock \o _queue_lock
        [] h = "_cleanup_loop" ->
             \* cleanup_expired, cleanup_timed_out_scouts
             _queue_lock \o _queue_lock
        [] h = "RarityManager._cleanup_loop" ->
             \* _cleanup_expired
             _manager_lock
        [] h = "_ranking_loop" ->
             \* _recalculate_rankings
             _manager_lock

\* task t makes its next lock operation: acquire waits while another task
\* holds the lock; after its last operation the handler runs again
LockStep(t) ==
  LET next_op == LockOps(t)[task_pc[t] + 1]
  IN  /\ task_pc' = [task_pc EXCEPT ![t] = (@ + 1) % Len(LockOps(t))]
      /\ IF next_op.op = "acquire"
         THEN /\ \A u \in Handlers : next_op.lock \notin holding[u]
              /\ holding' = [holding EXCEPT ![t] = @ \cup {next_op.lock}]
         ELSE holding' = [holding EXCEPT ![t] = @ \ {next_op.lock}]
      /\ UNCHANGED << now, config, lifecycle, koji, census, objs, _entries,
                      _heap, _scout_semaphore, _current_concurrency,
                      _active_scouts, stats, scoutTasks, hist >>

(***************************************************************************)
(* Specifications                                                          *)
(***************************************************************************)
\* The program: nothing in it calls update_concurrency.
Next ==
  \/ FeedNonIv
  \/ FeedIv
  \/ get_next_for_scout
  \/ ScoutDone
  \/ cleanup_loop
  \/ Tick

Spec == Init /\ [][Next]_vars

\* The program with update_concurrency called at any moment (hot reload).
ReloadNext ==
  \/ FeedNonIv
  \/ FeedIv
  \/ get_next_for_scout
  \/ ScoutDone
  \/ cleanup_loop
  \/ Tick
  \/ Reload

ReloadSpec == Init /\ [][ReloadNext]_vars

\* Feed and dispatcher only, with one more entry: the order of dispatch.
DispatchNext ==
  \/ FeedNonIvUpTo(MaxEntries + 1)
  \/ get_next_for_scout
  \/ ScoutDone
  \/ Tick

DispatchSpec == Init /\ [][DispatchNext]_vars

\* Feed, dispatcher and hot reload only, with one more entry: saturation.
SaturationNext ==
  \/ FeedNonIvUpTo(MaxEntries + 1)
  \/ get_next_for_scout
  \/ ScoutDone
  \/ Reload

SaturationSpec == Init /\ [][SaturationNext]_vars

\* Configurations whose ivlist has species 25 in its last position
ListLens == { 1, MaxListLen - 1, MaxListLen }
LongList(n) == [i \in 1..n |-> IF i = n THEN <<25>> ELSE <<10000 + i>>]

TierInit == \E n \in ListLens : InitWith(LongList(n), << <<132>> >>)

TierNext ==
  \/ FeedNonIv
  \/ Tick

TierSpec == TierInit /\ [][TierNext]_vars

\* The program, with the scheduling the event loop gives: a scout task ends
\* (the client's total timeout bounds the RPC), the cleanup loop wakes up
\* every 30 s, and time passes.
Fairness ==
  /\ \A e \in 1..MaxEntries : WF_vars(\E success \in BOOLEAN :
                                         e \in scoutTasks /\ mark_scout_complete(e, success))
  /\ WF_vars(cleanup_loop)
  /\ WF_vars(Tick)

LiveSpec == Init /\ [][Next]_vars /\ Fairness

\* The program over the lifetime of its entries: the cleanup loop wakes up
\* every 30 s and time passes; a scout task may stay in flight, and the
\* Dispatcher may find no free slot.
ExpiryNext ==
  \/ FeedNonIv
  \/ FeedIv
  \/ get_next_for_scout
  \/ ScoutDone
  \/ cleanup_loop
  \/ TickDefaultDelay

ExpirySpec ==
  Init /\ [][ExpiryNext]_vars /\ WF_vars(cleanup_loop) /\ WF_vars(TickDefaultDelay)

\* Feed and dispatcher with config.reload_config called at any moment.
ConfigReloadNext ==
  \/ FeedNonIv
  \/ get_next_for_scout
  \/ ScoutDone
  \/ ReloadConfig

ConfigReloadSpec == Init /\ [][ConfigReloadNext]_vars

\* Feed, dispatcher and cleanup loop until and through the shutdown.
ShutdownNext ==
  \/ FeedNonIv
  \/ get_next_for_scout
  \/ ScoutDone
  \/ cleanup_loop
  \/ Tick
  \/ shutdown
  \/ stop
  \/ stop_close
  \/ LazyIVQueueServer_shutdown
  \/ KojiGeofenceManager_shutdown

ShutdownSpec == Init /\ [][ShutdownNext]_vars

\* The application from its construction on: start brings the components
\* up while the feed, the Dispatcher, the Janitor and the geofence refresh
\* run as soon as they exist.
StartupInit ==
  /\ Constructed(<< <<150, 0>>, <<25>> >>, << <<132>> >>)
  /\ AppConfig_filter_with_koji = filter_with_koji
  /\ app_pc = StartOrder[1]
  /\ _cleanup_task = FALSE
  /\ _running = FALSE
  /\ _session = FALSE
  /\ _site = FALSE
  /\ _refresh_task = FALSE
  /\ _geofences = << >>
  /\ refresh_success = FALSE

StartupNext ==
  \/ initialize
  \/ get_instance
  \/ LazyIVQueueServer_start
  \/ ScoutCoordinator_start
  \/ create_cleanup_task
  \/ _refresh_loop
  \/ FeedNonIv
  \/ get_next_for_scout
  \/ ScoutDone
  \/ cleanup_loop
  \/ Tick

StartupSpec == StartupInit /\ [][StartupNext]_vars

\* The RarityManager at work: the census feed, the sightings feed asking
\* the census, and the two census timers, minute by minute.
CensusNext ==
  \/ FeedCensus
  \/ FeedNonIvCensus
  \/ _ranking_loop
  \/ _cleanup_expired
  \/ TickMinute

CensusSpec == Init /\ [][CensusNext]_vars

\* The same, with the scheduling the event loop gives the ranking task: it
\* wakes up every ranking_interval_seconds for as long as it exists.
CensusLiveSpec == CensusSpec /\ WF_vars(_ranking_loop)

\* The census feed and the census timers until and through the shutdown.
StopNext ==
  \/ FeedCensus
  \/ _ranking_loop
  \/ _cleanup_expired
  \/ Tick
  \/ shutdown
  \/ stop
  \/ stop_close
  \/ LazyIVQueueServer_shutdown
  \/ KojiGeofenceManager_shutdown

StopSpec == Init /\ [][StopNext]_vars

\* The tasks at their locks, interleaved at every lock operation.
LockSpec == Init /\ [][\E t \in Handlers : LockStep(t)]_vars

\* The sightings feed with any IV fields, and the Dispatcher.
WebhookNext ==
  \/ FeedWebhook
  \/ get_next_for_scout
  \/ ScoutDone

WebhookSpec == Init /\ [][WebhookNext]_vars

\* The application with FILTER_WITH_KOJI on, from the end of a startup whose
\* fetch returned any of the answers: both feeds, the census and the
\* geofence refresh.
KojiInit ==
  /\ Constructed(<< <<150, 0>>, <<25>> >>, << <<132>> >>)
  /\ AppConfig_filter_with_koji = TRUE
  /\ Started
  /\ \E new_geofences \in FetchResults :
       /\ _geofences = new_geofences
       /\ refresh_success = (new_geofences # << >>)

KojiNext ==
  \/ FeedNonIvCensus
  \/ FeedIv
  \/ FeedCensusUpTo(MaxSpawns - 2)
  \/ _refresh_loop
  \/ _ranking_loop
  \/ TickMinute

KojiSpec == KojiInit /\ [][KojiNext]_vars

(***************************************************************************)
(* Getters                                                                 *)
(***************************************************************************)
\* get_queue_size
get_queue_size == Len(_entries)

\* get_available_slots
get_available_slots == AppConfig_concurrency_scout - _active_scouts

\* get_stats: max_concurrency
max_concurrency == AppConfig_concurrency_scout

\* _get_total_from_type_dict
Total(type_dict) ==
  type_dict["wild"] + type_dict["nearby_stop"] + type_dict["nearby_cell"]

\* get_stats: awaiting_iv
waiting_for_iv ==
  Cardinality({ x \in DictValues(_entries) :
                  objs[x].was_scouted /\ ~objs[x].is_removed })

\* get_stats: pending = len(self._entries) - waiting_for_iv
get_stats_pending == Len(_entries) - waiting_for_iv

\* log_queue_status: currently_scouting
currently_scouting ==
  Cardinality({ x \in DictValues(_entries) :
                  objs[x].is_scouting /\ ~objs[x].is_removed })

\* log_queue_status: pending = queue_size - waiting_for_iv - currently_scouting
log_queue_status_pending == Len(_entries) - waiting_for_iv - currently_scouting

\* list.sort(key=(priority, timestamp)) is stable: insert after the elements
\* that are not greater
RECURSIVE SortByPriority(_, _)
SortByPriority(o, ids) ==
  IF ids = << >> THEN << >>
  ELSE LET rest == SortByPriority(o, SubSeq(ids, 1, Len(ids) - 1))
           x == ids[Len(ids)]
           k == Cardinality({ i \in 1..Len(rest) : ~EntryLess(o[x], o[rest[i]]) })
       IN  SubSeq(rest, 1, k) \o << x >> \o SubSeq(rest, k + 1, Len(rest))

\* get_next_entries_preview(count): the entries it lists, in order
get_next_entries_preview(count) ==
  LET valid == SelectSeq(_entries, LAMBDA x : /\ ~objs[x].is_removed
                                              /\ ~objs[x].is_scouting
                                              /\ ~objs[x].was_scouted)
      sorted == SortByPriority(objs, valid)
  IN  SubSeq(sorted, 1, IF count < Len(sorted) THEN count ELSE Len(sorted))

(***************************************************************************)
(* Vocabulary of the properties                                            *)
(***************************************************************************)
Ids == 1..Len(objs)
Live(e) == ~objs[e].is_removed
IsPending(e) == Live(e) /\ ~objs[e].is_scouting /\ ~objs[e].was_scouted
Pending == { e \in Ids : IsPending(e) }
InFlightCount == Cardinality({ e \in Ids : objs[e].is_scouting })
HeapElements == { _heap[i] : i \in 1..Len(_heap) }
PreviewIds == LET pv == get_next_entries_preview(Len(objs))
              IN  { pv[i] : i \in 1..Len(pv) }
\* e is handed out by get_next_for_scout in this step
Dispatched(e) == ~objs[e].is_scouting /\ objs'[e].is_scouting
\* the entries this step removes
NewlyRemoved == { e \in Ids : ~objs[e].is_removed /\ objs'[e].is_removed }
\* e has been handed out: it is in flight or awaiting its match
HasBeenDispatched(e) == objs[e].is_scouting \/ objs[e].was_scouted
\* neither sweep of the cleanup loop has removed e
NotSwept(e) == objs[e].disappear_time >= now /\ Total(_timeouts_by_type) = 0
\* this step processes an IV sighting
IvStep == \E p \in World : filter_iv_pokemon(p)
\* cleanup_expired would remove e now
IsExpired(e) ==
  Live(e) /\ objs[e].disappear_time # NoTime /\ objs[e].disappear_time < now
\* the scout of e started more than timeout_iv ago
IsOverdue(e) ==
  /\ Live(e) /\ objs[e].scout_started_at # NoTime
  /\ now - objs[e].scout_started_at > timeout_iv
\* the entries of S with seen_type t and species display d
OfKind(S, t, d) ==
  { e \in S : objs[e].seen_type = t /\ pokemon_display(objs[e]) = d }

(***************************************************************************)
(* C1  No two non-removed queue entries have the same key, in every        *)
(* reachable state.                                                        *)
(***************************************************************************)
C1_KeysUnique ==
  \A a, b \in Ids :
    (a # b /\ Live(a) /\ Live(b)) => unique_key(objs[a]) # unique_key(objs[b])

\* a key was queued again after its first entry had been removed
C1_Witness ==
  \E a, b \in Ids : /\ a # b
                    /\ unique_key(objs[a]) = unique_key(objs[b])
                    /\ ~Live(a) /\ Live(b)

(***************************************************************************)
(* C2  (as claimed) The number of entries with in_flight set never exceeds *)
(* the current concurrency limit, update_concurrency included.             *)
(***************************************************************************)
C2_CapCurrentLimit == InFlightCount <= _current_concurrency

(***************************************************************************)
(* C2  (amended) The number of entries with in_flight set never exceeds    *)
(* the current limit plus the number of scouts that were in flight when    *)
(* update_concurrency last replaced the semaphore (none if it never did).  *)
(***************************************************************************)
C2_CapPlusCarried == InFlightCount <= _current_concurrency + carried

\* after a hot reload, more scouts in flight than the limit in force
C2_Witness == updated /\ InFlightCount > _current_concurrency

(***************************************************************************)
(* C3  After update_concurrency(n), once every scout that was in flight at *)
(* the update has completed, at most n entries are in flight.              *)
(***************************************************************************)
C3_SteadyStateCap ==
  (updated /\ oldHolders = {}) => InFlightCount <= _current_concurrency

(***************************************************************************)
(* C4  A scout that took its slot before update_concurrency(n) does not    *)
(* release it into the replacement semaphore: the free slots of the        *)
(* replacement never exceed n.                                             *)
(***************************************************************************)
C4_ReplacementNotOverReleased ==
  updated => _scout_semaphore <= _current_concurrency

(***************************************************************************)
(* C5  in_flight and awaiting_match are never both set on a non-removed    *)
(* entry, so a live entry is in exactly one of pending, in_flight,         *)
(* awaiting_match.                                                         *)
(***************************************************************************)
C5_LiveStateExclusive ==
  \A e \in Ids : Live(e) => ~(objs[e].is_scouting /\ objs[e].was_scouted)

\* one live entry is awaiting its match while another is in flight
C5_Witness ==
  \E a, b \in Ids : /\ Live(a) /\ objs[a].was_scouted /\ ~objs[a].is_scouting
                    /\ Live(b) /\ objs[b].is_scouting

(***************************************************************************)
(* C6  (as claimed) Exactly one of pending, in_flight, awaiting_match,     *)
(* removed holds of every entry ever created: a removed entry has neither  *)
(* in_flight nor awaiting_match set.                                       *)
(***************************************************************************)
C6_ExactlyOneOfFour ==
  \A e \in Ids :
    Cardinality({ s \in {"pending", "in_flight", "awaiting_match", "removed"} :
        \/ s = "pending" /\ IsPending(e)
        \/ s = "in_flight" /\ objs[e].is_scouting
        \/ s = "awaiting_match" /\ objs[e].was_scouted
        \/ s = "removed" /\ objs[e].is_removed }) = 1

(***************************************************************************)
(* C6  (amended) Of every entry ever created, removed or not, in_flight    *)
(* and awaiting_match are never both set, and in_flight is set exactly     *)
(* while its scout is running: an entry removed while in_flight or         *)
(* awaiting_match keeps that flag, and mark_scout_complete on a removed    *)
(* entry moves it from in_flight to awaiting_match.                        *)
(***************************************************************************)
C6_FlagsOfEveryEntry ==
  \A e \in Ids : /\ ~(objs[e].is_scouting /\ objs[e].was_scouted)
                 /\ objs[e].is_scouting <=> e \in scoutTasks

\* an entry was removed while in flight and still has in_flight set, next to
\* one that was removed while awaiting its match
C6_Witness ==
  \E a, b \in Ids : /\ objs[a].is_removed /\ objs[a].is_scouting
                    /\ objs[b].is_removed /\ objs[b].was_scouted

C8_FifoWithinPriority ==
  [][ \A e \in Ids :
        Dispatched(e) =>
          \A p \in Pending : objs[p].priority = objs[e].priority => e <= p ]_vars

(***************************************************************************)
(* C9  Every ivlist or celllist entry has a strictly smaller priority than *)
(* every auto_rarity entry, for every list length and rank.                *)
(***************************************************************************)
C9_TierZeroFirst ==
  \A a, b \in Ids :
    (/\ objs[a].list_type \in {"ivlist", "celllist"}
     /\ objs[b].list_type = "auto_rarity") => objs[a].priority < objs[b].priority

(***************************************************************************)
(* C10  is_removed, once set, stays set, and a removed entry is never      *)
(* handed out again: not by get_next_for_scout, the preview,               *)
(* remove_by_match or remove_by_cell_match, and it counts neither in the   *)
(* queue size nor in the pending / awaiting statistics.                    *)
(***************************************************************************)
C10_RemovedUnobservable ==
  \A e \in Ids :
    objs[e].is_removed =>
      /\ e \notin DictValues(_entries)
      /\ e \notin PreviewIds
      /\ NextLoop(objs, _entries, _heap).entry # e
      /\ \A p \in World :
           /\ remove_by_match(objs, _entries, p.encounter_id, p.loc) # e
           /\ remove_by_cell_match(objs, _entries, p.pokemon_id, p.form,
                                   get_s2_cell_id(p.loc)) # e

C10_MonotonicRemoval ==
  /\ [][ \A e \in Ids : objs[e].is_removed =>
           objs'[e].is_removed /\ ~Dispatched(e) ]_vars
  /\ [](/\ C10_RemovedUnobservable
        /\ get_queue_size = Cardinality({ e \in Ids : Live(e) })
        /\ get_queue_size - waiting_for_iv =
             Cardinality({ e \in Ids : Live(e) /\ ~objs[e].was_scouted }))

\* a removed entry still sits in the heap while its key is queued again
C10_Witness ==
  \E a, b \in Ids : /\ objs[a].is_removed /\ a \in HeapElements
                    /\ Live(b) /\ unique_key(objs[a]) = unique_key(objs[b])

(***************************************************************************)
(* C11  Processing one IV sighting removes at most one queue entry, even   *)
(* when several non-removed entries lie within 70 m of it or share its     *)
(* cell and species.                                                       *)
(***************************************************************************)
C11_MatchConsumesAtMostOne ==
  [][ (NewlyRemoved # {} /\ IvStep) =>
        /\ Cardinality(NewlyRemoved) <= 1
        /\ Len(_entries) - Len(_entries') <= 1 ]_vars

\* an IV sighting removed entry a while entry b, queued before a and still
\* in the queue, was within 70 m of the same sighting
C11_Witness ==
  \E a, b \in Ids, p \in World :
    /\ b < a /\ objs[a].is_removed /\ Live(b) /\ NotSwept(a)
    /\ _matches_by_pokemon[objs[a].seen_type][pokemon_display(p)]
         + _early_iv_by_pokemon[objs[a].seen_type][pokemon_display(p)] = 1
    /\ objs[a].encounter_id = p.encounter_id
    /\ is_within_distance(objs[a].loc, p.loc, COORDINATE_MATCH_THRESHOLD_METERS)
    /\ is_within_distance(objs[b].loc, p.loc, COORDINATE_MATCH_THRESHOLD_METERS)

(***************************************************************************)
(* C12  An add whose key already maps to a non-removed entry, be it        *)
(* pending, in flight or awaiting its match, is rejected: the map, the     *)
(* heap, the queue size and the queued counters stay as they are.          *)
(***************************************************************************)
C12_DuplicateAddRejected ==
  [][ \A p \in World, ready \in BOOLEAN, rank \in Ranks :
        LET c == Classify(p, ready, rank)
        IN  ( /\ c.ok
              /\ \E e \in Ids : /\ Live(e)
                                 /\ unique_key(objs[e]) = unique_key(QueueEntry(p, c))
              /\ filter_non_iv_pokemon(p, ready, rank) )
            => UNCHANGED << objs, _entries, _heap, stats >> ]_vars

\* a sighting whose key belongs to an entry awaiting its match can arrive:
\* its add is the rejected one
C12_Witness ==
  /\ Len(objs) < MaxEntries
  /\ \E e \in Ids, p \in World, ready \in BOOLEAN, rank \in Ranks :
       LET c == Classify(p, ready, rank)
       IN  /\ c.ok
           /\ Live(e) /\ objs[e].was_scouted
           /\ unique_key(objs[e]) = unique_key(QueueEntry(p, c))
           /\ Total(_queued_by_type) = 1

(***************************************************************************)
(* C13  (as claimed) An IV sighting that carries the encounter_id of a     *)
(* queued entry e removes e, the queue size goes down by one, and the      *)
(* matched counter of e's seen_type and species goes up by exactly 1.      *)
(***************************************************************************)
C13_MatchCountsMatched ==
  [][ \A p \in World, e \in Ids :
        ( /\ Live(e) /\ p.encounter_id # NoStr
          /\ objs[e].encounter_id = p.encounter_id
          /\ filter_iv_pokemon(p) )
        => LET t == objs[e].seen_type
               d == pokemon_display(objs[e])
           IN  /\ NewlyRemoved = {e}
               /\ Len(_entries') = Len(_entries) - 1
               /\ _matches_by_type'[t] = _matches_by_type[t] + 1
               /\ _matches_by_pokemon'[t][d] = _matches_by_pokemon[t][d] + 1 ]_vars

(***************************************************************************)
(* C13  (amended) An IV sighting that carries the encounter_id of a queued *)
(* entry e removes e and the queue size goes down by one; exactly one      *)
(* counter of e's seen_type and the sighting's species goes up, by 1:      *)
(* matched when e had been dispatched, early_iv when e was still pending.  *)
(***************************************************************************)
C13_MatchCountsOnce ==
  [][ \A p \in World, e \in Ids :
        ( /\ Live(e) /\ p.encounter_id # NoStr
          /\ objs[e].encounter_id = p.encounter_id
          /\ filter_iv_pokemon(p) )
        => LET t == objs[e].seen_type
               d == pokemon_display(p)
               m == IF HasBeenDispatched(e) THEN 1 ELSE 0
           IN  /\ NewlyRemoved = {e}
               /\ Len(_entries') = Len(_entries) - 1
               /\ _matches_by_type'[t] = _matches_by_type[t] + m
               /\ _matches_by_pokemon'[t][d] = _matches_by_pokemon[t][d] + m
               /\ _early_iv_by_type'[t] = _early_iv_by_type[t] + (1 - m)
               /\ _early_iv_by_pokemon'[t][d] =
                    _early_iv_by_pokemon[t][d] + (1 - m) ]_vars

\* an entry was removed through its encounter_id while it was pending and
\* counted as early_iv, although an older entry within 70 m was queued
C13_Witness ==
  \E e, b \in Ids :
    /\ b < e /\ Live(b) /\ objs[e].is_removed /\ NotSwept(e)
    /\ ~HasBeenDispatched(e)
    /\ is_within_distance(objs[e].loc, objs[b].loc,
                          COORDINATE_MATCH_THRESHOLD_METERS)
    /\ _early_iv_by_pokemon[objs[e].seen_type][pokemon_display(objs[e])] = 1
    /\ Total(_early_iv_by_type) = 1 /\ Total(_matches_by_type) = 0

(***************************************************************************)
(* C14  Every entry an IV sighting removes raises exactly one of matched / *)
(* early_iv, by exactly 1: matched if and only if the entry had been       *)
(* dispatched (in flight or awaiting its match), early_iv if and only if   *)
(* it was pending.  No step takes an entry back from dispatched to         *)
(* pending, so a mark_scout_complete next to the match cannot change the   *)
(* counter.                                                                *)
(***************************************************************************)
C14_OneCounterPerRemoval ==
  [][ /\ \A e \in Ids :
           HasBeenDispatched(e) => objs'[e].is_scouting \/ objs'[e].was_scouted
      /\ \A p \in World :
           (NewlyRemoved # {} /\ filter_iv_pokemon(p)) =>
             LET N(S, t) == Cardinality({ e \in S : objs[e].seen_type = t })
                 done == { e \in NewlyRemoved : HasBeenDispatched(e) }
                 early == NewlyRemoved \ done
             IN  /\ \A t \in SeenTypes :
                      /\ _matches_by_type'[t] = _matches_by_type[t] + N(done, t)
                      /\ _early_iv_by_type'[t] = _early_iv_by_type[t] + N(early, t)
                      /\ \A d \in Displays :
                           LET k == IF d = pokemon_display(p) THEN 1 ELSE 0
                           IN  /\ _matches_by_pokemon'[t][d] =
                                    _matches_by_pokemon[t][d] + k * N(done, t)
                               /\ _early_iv_by_pokemon'[t][d] =
                                    _early_iv_by_pokemon[t][d] + k * N(early, t)
                 /\ UNCHANGED << _queued_by_type, _queued_by_pokemon,
                                 _timeouts_by_type, _timeouts_by_pokemon >> ]_vars

\* one entry was removed by its IV while in flight and counted as matched,
\* another while pending and counted as early_iv
C14_Witness ==
  \E a, b \in Ids :
    /\ objs[a].is_removed /\ objs[a].is_scouting /\ NotSwept(a)
    /\ objs[b].is_removed /\ ~HasBeenDispatched(b) /\ NotSwept(b)
    /\ _matches_by_type[objs[a].seen_type] = 1
    /\ _early_iv_by_type[objs[b].seen_type] = 1
    /\ Total(_matches_by_type) = 1 /\ Total(_early_iv_by_type) = 1

(***************************************************************************)
(* C15  Every entry get_next_for_scout returns is eventually followed by   *)
(* exactly one mark_scout_complete, whatever the outcome of the RPC: the   *)
(* completion clears in_flight, sets awaiting_match and releases one slot, *)
(* the entry is never handed out again, and slots taken plus slots free    *)
(* stay equal to the limit.                                                *)
(***************************************************************************)
C15_ScoutCompletesOnce ==
  /\ \A e \in 1..MaxEntries :
       (e \in scoutTasks) ~>
         (e \in Ids /\ e \notin scoutTasks /\ objs[e].was_scouted)
  /\ [][ \A e \in Ids :
           /\ (e \in scoutTasks /\ e \notin scoutTasks') =>
                /\ objs'[e].was_scouted /\ ~objs'[e].is_scouting
                /\ _scout_semaphore' = _scout_semaphore + 1
           /\ (e \notin scoutTasks /\ e \in scoutTasks') =>
                /\ ~HasBeenDispatched(e)
                /\ _scout_semaphore' = _scout_semaphore - 1
           /\ objs[e].was_scouted => objs'[e].was_scouted /\ e \notin scoutTasks' ]_vars
  /\ [](_scout_semaphore + Cardinality(scoutTasks) = _current_concurrency)

\* a scout has completed and given its slot back while its entry waits for
\* the match
C15_Witness ==
  \E e \in Ids : /\ Live(e) /\ objs[e].was_scouted /\ ~objs[e].is_scouting
                  /\ e \notin scoutTasks
                  /\ _scout_semaphore = _current_concurrency

(***************************************************************************)
(* C16  (as claimed) Every dispatched entry for which no matching IV       *)
(* arrives is eventually removed by cleanup_timed_out_scouts and counted   *)
(* once as a timeout; it does not leave the queue uncounted by another     *)
(* route.  (Entries dispatched too late for the clock of the model to pass *)
(* their timeout are left out.)                                            *)
(***************************************************************************)
C16_TimedOutAndCounted ==
  /\ \A e \in 1..MaxEntries :
       ( /\ e \in Ids /\ Live(e) /\ objs[e].scout_started_at # NoTime
         /\ objs[e].scout_started_at + timeout_iv < MaxTime )
       ~> (e \in Ids /\ ~Live(e))
  /\ [][ \A e \in NewlyRemoved :
           (HasBeenDispatched(e) /\ ~IvStep) =>
             LET t == objs[e].seen_type
                 d == pokemon_display(objs[e])
             IN  _timeouts_by_pokemon'[t][d] > _timeouts_by_pokemon[t][d] ]_vars

(***************************************************************************)
(* C16  (amended) Every dispatched entry for which no matching IV arrives  *)
(* is eventually removed by the cleanup loop: by cleanup_expired, counted  *)
(* nowhere, when its disappear_time has passed at that sweep, and else by  *)
(* cleanup_timed_out_scouts, counted once as a timeout.  A dispatched      *)
(* entry leaves the queue by an IV match or by these two sweeps only.      *)
(***************************************************************************)
C16_RemovedByCleanup ==
  /\ \A e \in 1..MaxEntries :
       ( /\ e \in Ids /\ Live(e) /\ objs[e].scout_started_at # NoTime
         /\ objs[e].scout_started_at + timeout_iv < MaxTime )
       ~> (e \in Ids /\ ~Live(e))
  /\ [][ \A e \in NewlyRemoved :
           (HasBeenDispatched(e) /\ ~IvStep) =>
             LET t == objs[e].seen_type
                 d == pokemon_display(objs[e])
                 swept == { x \in NewlyRemoved : ~IsExpired(x) }
             IN  /\ cleanup_loop
                 /\ IsExpired(e) \/ IsOverdue(e)
                 /\ _timeouts_by_pokemon'[t][d] =
                      _timeouts_by_pokemon[t][d] + Cardinality(OfKind(swept, t, d)) ]_vars

\* of two dispatched entries no IV arrived for, one was timed out and
\* counted, the other had expired and was dropped without a count
C16_Witness ==
  \E a, b \in Ids :
    /\ a # b
    /\ objs[a].is_removed /\ objs[a].was_scouted /\ objs[a].disappear_time >= now
    /\ objs[b].is_removed /\ HasBeenDispatched(b) /\ objs[b].disappear_time < now
    /\ Total(_matches_by_type) = 0 /\ Total(_early_iv_by_type) = 0
    /\ Total(_timeouts_by_type) = 1
    /\ _timeouts_by_pokemon[objs[a].seen_type][pokemon_display(objs[a])] = 1

(***************************************************************************)
(* C17  cleanup_timed_out_scouts removes exactly the non-removed entries   *)
(* whose scout_started_at is set and whose elapsed time is strictly        *)
(* greater than timeout_iv, entries still in flight included; it counts    *)
(* one timeout per removed entry under its seen_type and species and       *)
(* leaves every other entry and counter as it is.  (It runs on what        *)
(* cleanup_expired left.)                                                  *)
(***************************************************************************)
C17_SweepTimedOutExact ==
  [][ (objs' # objs /\ cleanup_loop) =>
        LET expired == { e \in Ids : IsExpired(e) }
            overdue == { e \in Ids \ expired : IsOverdue(e) }
        IN  /\ \A e \in Ids :
                 objs'[e] = IF e \in expired \cup overdue
                            THEN [objs[e] EXCEPT !.is_removed = TRUE]
                            ELSE objs[e]
            /\ DictValues(_entries') = DictValues(_entries) \ (expired \cup overdue)
            /\ \A t \in SeenTypes :
                 /\ _timeouts_by_type'[t] = _timeouts_by_type[t]
                      + Cardinality({ e \in overdue : objs[e].seen_type = t })
                 /\ \A d \in Displays :
                      _timeouts_by_pokemon'[t][d] =
                        _timeouts_by_pokemon[t][d] + Cardinality(OfKind(overdue, t, d))
            /\ UNCHANGED << _queued_by_type, _matches_by_type, _early_iv_by_type,
                            _queued_by_pokemon, _matches_by_pokemon,
                            _early_iv_by_pokemon, _heap, _scout_semaphore,
                            _active_scouts, scoutTasks >> ]_vars

\* an entry was timed out while its scout was still in flight and counted,
\* next to an entry that was never dispatched and is still queued
C17_Witness ==
  \E a, b \in Ids :
    /\ objs[a].is_removed /\ objs[a].is_scouting /\ objs[a].disappear_time >= now
    /\ _timeouts_by_pokemon[objs[a].seen_type][pokemon_display(objs[a])] = 1
    /\ Total(_matches_by_type) = 0 /\ Total(_early_iv_by_type) = 0
    /\ Live(b) /\ ~HasBeenDispatched(b)

(***************************************************************************)
(* C18  remove_by_match removes an entry with the given encounter_id when  *)
(* a non-removed one exists; only when none carries it, or it is empty,    *)
(* does it remove an entry within 70 m of the coordinates, and nothing     *)
(* when there is none either: an IV sighting with another, non-empty       *)
(* encounter_id 60 m from a queued entry removes that entry.               *)
(***************************************************************************)
C18_IdFirstThenProximity ==
  \A p \in World :
    LET r == remove_by_match(objs, _entries, p.encounter_id, p.loc)
        same == { e \in Ids : /\ Live(e) /\ p.encounter_id # NoStr
                               /\ objs[e].encounter_id = p.encounter_id }
        near == { e \in Ids : /\ Live(e)
                               /\ is_within_distance(objs[e].loc, p.loc,
                                    COORDINATE_MATCH_THRESHOLD_METERS) }
    IN  IF same # {} THEN r \in same
        ELSE IF near # {} THEN r \in near
        ELSE r = NoEntry

\* the entry with encounter E1 was removed by the IV sighting of another
\* species with another encounter_id, 60 m away: the proximity fallback
C18_Witness ==
  \E a \in Ids :
    /\ objs[a].is_removed /\ objs[a].encounter_id = "E1" /\ NotSwept(a)
    /\ \A e \in Ids : objs[e].pokemon_id # 10
    /\ _early_iv_by_pokemon["wild"][<<10>>] + _matches_by_pokemon["wild"][<<10>>] = 1

(***************************************************************************)
(* C19  After a config reload that changes concurrency_scout to n, the     *)
(* queue has been given n: the limit reported (max_concurrency,            *)
(* available_slots) is the limit the semaphore of get_next_for_scout       *)
(* enforces.                                                               *)
(***************************************************************************)
C19_ReportedLimitEnforced ==
  /\ max_concurrency = _current_concurrency
  /\ get_available_slots = _scout_semaphore

(***************************************************************************)
(* C20  Shutdown does not cut off the scouts in flight: the coordinator's  *)
(* stop closes the Scout client only after every scout in flight has       *)
(* called mark_scout_complete.                                             *)
(***************************************************************************)
C20_StopWaitsForScouts == ~_session => scoutTasks = {}

(***************************************************************************)
(* C21: startup order                                                      *)
(***************************************************************************)
\* C21 (as stated): the HTTP server becomes active last, so whenever it is
\* listening the Dispatcher and the Janitor have already been started.
C21_ServerStartsLast == _site => (_running /\ _cleanup_task)

\* C21 (amended): the components become active in the order geofence
\* refresh, queue ready, HTTP server, Dispatcher, Janitor.  The server
\* listens only after the geofences were fetched and the queue is ready, the
\* Dispatcher runs only while the server is up, the Janitor only once the
\* Dispatcher runs; no sighting is accepted before the server listens and no
\* entry is dispatched before the Dispatcher has been started.
C21_StartOrder ==
  /\ _refresh_task => app_pc # "geofences"
  /\ _site => (_refresh_task /\ app_pc \notin {"geofences", "queue"})
  /\ _running => (_site /\ _session)
  /\ _cleanup_task => _running
  /\ app_pc = "run" => (_refresh_task /\ _site /\ _running /\ _cleanup_task)
  /\ objs # << >> => _site
  /\ scoutTasks # {} => _running

\* C21 witness: the server is listening, after the geofence fetch, while
\* neither the Dispatcher nor the Janitor has been started.
C21_Witness ==
  /\ _site
  /\ _refresh_task
  /\ ~_running
  /\ ~_cleanup_task

(***************************************************************************)
(* C22: shutdown order                                                     *)
(***************************************************************************)
\* C22: on shutdown the components stop in the order Dispatcher, HTTP
\* server, Janitor, RarityCensus, GeofenceResolver, each stop completing
\* before the next begins, and all of them, the two RarityCensus timers
\* included, are stopped when shutdown completes.
C22_StopOrder ==
  /\ ~_site => (~_running /\ ~_session)
  /\ ~_cleanup_task => ~_site
  /\ (_start_time # NoTime /\ ~_ranking_task /\ ~RarityManager_cleanup_task)
       => ~_cleanup_task
  /\ ~_refresh_task => (~_ranking_task /\ ~RarityManager_cleanup_task)
  /\ app_pc = "done" =>
       /\ ~_running /\ ~_session /\ ~_site /\ ~_cleanup_task /\ ~_refresh_task
       /\ ~_ranking_task /\ ~RarityManager_cleanup_task

(***************************************************************************)
(* C23: routing of a sighting by its IV fields                             *)
(***************************************************************************)
\* C23: a sighting goes to the match logic exactly when all three IV fields
\* are present: one with all three never enqueues, and one with none or only
\* some of them is treated as having no IV, so it removes no entry.
C23_RoutedByAllThree ==
  [][ \A p \in World, ivs \in SUBSET IvFields :
        ( IF ivs = IvFields THEN Len(objs') # Len(objs)
          ELSE NewlyRemoved # {} )
        => ~process_pokemon_webhook(p, ivs) ]_vars

(***************************************************************************)
(* C24: nothing is queued by rarity during calibration                     *)
(***************************************************************************)
\* C24: while the census is CALIBRATING no auto_rarity entry is added to
\* the queue, whatever the census has seen, and a supported sighting on the
\* ivlist (or, for nearby_cell, on the celllist) is still accepted for
\* queueing.
C24_NoRarityWhileCalibrating ==
  [][ _status = "CALIBRATING" =>
        /\ \A e \in (Len(objs) + 1)..Len(objs') :
             objs'[e].list_type # "auto_rarity"
        /\ \A p \in World :
             LET c == Classify(p, is_ready,
                               get_rarity_rank(p.pokemon_id, p.form, area_of(p)))
                 listed == IF p.seen_type = "nearby_cell"
                           THEN is_in_list(celllist, p)
                           ELSE is_in_list(ivlist, p)
             IN  (p.seen_type \in SeenTypes /\ listed.matches
                    /\ listed.priority # NoPriority)
                 => (c.ok /\ c.list_type \in {"ivlist", "celllist"}) ]_vars

\* C24 witness: the census is still calibrating after MaxSpawns census
\* sightings, and the queue holds an ivlist and a celllist entry but no
\* auto_rarity entry.
C24_Witness ==
  /\ _status = "CALIBRATING"
  /\ _total_spawns_tracked = MaxSpawns
  /\ \E e \in 1..Len(objs) : objs[e].list_type = "ivlist"
  /\ \E e \in 1..Len(objs) : objs[e].list_type = "celllist"
  /\ \A e \in 1..Len(objs) : objs[e].list_type # "auto_rarity"

(***************************************************************************)
(* C25: a failed geofence refresh                                          *)
(***************************************************************************)
\* C25: a refresh whose fetch fails leaves the geofence set as it was, so
\* every point resolves to the same area as before, and the refresh loop
\* keeps running: it is ready to fetch again.
C25_FailedRefreshKeepsSet ==
  [][ (_refresh_loop /\ ~refresh_success') =>
        /\ _geofences' = _geofences
        /\ \A p \in World :
             AreaOf(_geofences', p.loc) = AreaOf(_geofences, p.loc)
        /\ _refresh_task'
        /\ (ENABLED _refresh_loop)' ]_vars

\* C25 witness: the last refresh failed, and the set fetched before it is
\* still loaded and still resolves a point to its area.
C25_Witness ==
  /\ app_pc = "run"
  /\ ~refresh_success
  /\ _refresh_task
  /\ _geofences = << AreaA, AreaB >>
  /\ \E p \in World : AreaOf(_geofences, p.loc) = "B"

(***************************************************************************)
(* C26: a call of nextForScout that returns nothing                        *)
(***************************************************************************)
\* C26: when get_next_for_scout hands out no entry, the free slots,
\* _active_scouts, the entries and every flag of every entry are as before;
\* the only change is that elements which were invalid (removed, in flight
\* or already scouted) have left the heap.
C26_NothingToScout ==
  [][ (scoutTasks' = scoutTasks /\ now' = now /\ get_next_for_scout) =>
        /\ _scout_semaphore' = _scout_semaphore
        /\ _active_scouts' = _active_scouts
        /\ objs' = objs
        /\ _entries' = _entries
        /\ HeapElements' \subseteq HeapElements
        /\ \A e \in HeapElements \ HeapElements' : IsStale(objs, _entries, e)
        /\ Len(_heap) - Len(_heap') = Cardinality(HeapElements \ HeapElements') ]_vars

\* C26 witness: the only entry ever queued was removed before any dispatch,
\* and a call that found nothing has discarded its heap element: the heap is
\* empty, every slot is free and no scout is active.
C26_Witness ==
  /\ Len(objs) = 1
  /\ objs[1].is_removed
  /\ ~HasBeenDispatched(1)
  /\ _heap = << >>
  /\ _scout_semaphore = _current_concurrency
  /\ _active_scouts = 0

(***************************************************************************)
(* C27: what removeByCellMatch can remove                                  *)
(***************************************************************************)
\* C27: the entry remove_by_cell_match picks, for any species, form and cell
\* token, is a live nearby_cell entry with that cell token and species (and
\* that form when one is given) which is in flight or awaiting its match;
\* and an entry an IV sighting removes without remove_by_match having found
\* it is such an entry: never a pending one, never one of another seen_type.
C27_CellMatchOnlyDispatchedCell ==
  [][ /\ \A pokemon_id \in {10, 25, 132}, form \in {NoForm, 1},
           cell \in { get_s2_cell_id(p.loc) : p \in World } :
           LET r == remove_by_cell_match(objs, _entries, pokemon_id, form, cell)
           IN  r # NoEntry =>
                 /\ Live(r)
                 /\ objs[r].seen_type = "nearby_cell"
                 /\ objs[r].s2_cell_id = cell
                 /\ objs[r].pokemon_id = pokemon_id
                 /\ (form # NoForm => objs[r].form = form)
                 /\ HasBeenDispatched(r)
      /\ \A p \in World :
           (NewlyRemoved # {} /\ filter_iv_pokemon(p)) =>
             \A e \in NewlyRemoved :
               \/ e = remove_by_match(objs, _entries, p.encounter_id, p.loc)
               \/ /\ objs[e].seen_type = "nearby_cell"
                  /\ objs[e].s2_cell_id = get_s2_cell_id(p.loc)
                  /\ objs[e].pokemon_id = p.pokemon_id
                  /\ (p.form # NoForm => objs[e].form = p.form)
                  /\ HasBeenDispatched(e) ]_vars

\* C27 witness: a dispatched nearby_cell entry was removed and counted as a
\* match while an older entry at the same coordinates is still queued, so
\* it was not found by proximity but by its cell.
C27_Witness ==
  /\ Len(objs) = 2
  /\ Live(1)
  /\ objs[1].loc = objs[2].loc
  /\ objs[2].seen_type = "nearby_cell"
  /\ objs[2].is_removed
  /\ NotSwept(2)
  /\ _matches_by_type["nearby_cell"] = 1

C29_RarityPriority ==
  [][ /\ \A p \in World :
           LET rank == get_rarity_rank(p.pokemon_id, p.form, area_of(p))
               new == objs'[Len(objs')]
           IN  ( /\ Len(objs') > Len(objs)
                 /\ new.list_type = "auto_rarity"
                 /\ filter_non_iv_pokemon_census(p) )
               => /\ new.priority = IF rank = NoRank THEN RarityTierBase
                                    ELSE RarityTierBase + rank
                  /\ rank = NoRank \/ (1 <= rank /\ rank <= iv_threshold)
      /\ \A p \in World,
            rank \in (1..(iv_threshold + MaxSpawns))
                      \cup (PendingRankBase..(PendingRankBase + MaxSpawns)) :
           LET c == Classify(p, TRUE, rank)
           IN  (rank > iv_threshold /\ c.ok) => c.list_type # "auto_rarity" ]_vars

\* C29 witness: the queue holds one entry queued with an unknown rank, at
\* priority 1000, and one queued with the highest rank still accepted, at
\* priority 1000 + iv_threshold.
C29_Witness ==
  \E a \in Ids, b \in Ids :
    /\ objs[a].list_type = "auto_rarity"
    /\ objs[a].priority = RarityTierBase
    /\ objs[b].list_type = "auto_rarity"
    /\ objs[b].priority = RarityTierBase + iv_threshold

(***************************************************************************)
(* C30: the ranks recalculate assigns                                      *)
(***************************************************************************)
\* C30: the ranking _recalculate_rankings computes, and the cache a round of
\* the ranking loop leaves, give in each area exactly the species with at
\* least one active spawn the ranks 1..n, each rank once, and a species
\* with strictly fewer active spawns a strictly smaller rank.
C30_RanksDenseAndOrdered ==
  [][ LET Good(cache) ==
            /\ DOMAIN cache = DOMAIN _actives
            /\ \A a \in DOMAIN _actives :
                 LET inner == _actives[a]
                     ranked == cache[a]
                     species == { inner[i].pokemon_key :
                                    i \in { k \in 1..Len(inner) : CountOf(inner[k]) > 0 } }
                     n == Cardinality(species)
                     count(key) == CountOf(inner[KeyIndex(inner, key)])
                 IN  /\ Len(ranked) = n
                     /\ { ranked[i].pokemon_key : i \in 1..Len(ranked) } = species
                     /\ { ranked[i].rank : i \in 1..Len(ranked) } = 1..n
                     /\ \A i, j \in 1..Len(ranked) :
                          count(ranked[i].pokemon_key) < count(ranked[j].pokemon_key)
                            => ranked[i].rank < ranked[j].rank
      IN  /\ Good(recalculate_rankings(_actives))
          /\ _ranking_loop => Good(_rank_cache') ]_vars

\* C30 witness: the ranking loop has ranked an area in which one species has
\* more active spawns than another; the cache is that of the current census.
C30_Witness ==
  /\ "GLOBAL" \in DOMAIN _rank_cache
  /\ _rank_cache = recalculate_rankings(_actives)
  /\ Len(_rank_cache["GLOBAL"]) = 2
  /\ \E i, j \in 1..Len(_actives["GLOBAL"]) :
       CountOf(_actives["GLOBAL"][i]) < CountOf(_actives["GLOBAL"][j])

(***************************************************************************)
(* C31  The census starts CALIBRATING; a step takes it to READY only when  *)
(* the time since its start is at least calibration_minutes * 60 seconds;  *)
(* once READY it never is CALIBRATING again; and with the ranking task     *)
(* ticking it is READY eventually once that time has passed.               *)
(***************************************************************************)
C31_CalibrationThenReady ==
  /\ _status = "CALIBRATING"
  /\ [][ /\ _status \in {"CALIBRATING", "READY"}
         /\ (_status = "CALIBRATING" /\ _status' = "READY")
              => /\ _start_time # NoTime
                 /\ now - _start_time >= calibration_minutes * SecondsPerMinute
         /\ _status = "READY" => _status' = "READY" ]_vars
  /\ (/\ _start_time # NoTime
      /\ now - _start_time >= calibration_minutes * SecondsPerMinute)
       ~> (_status = "READY")

\* the census left its calibration, a full calibration period after its
\* start, and spawns were counted before that
C31_Witness ==
  /\ _status = "READY"
  /\ _start_time # NoTime
  /\ now - _start_time >= calibration_minutes * SecondsPerMinute
  /\ _total_spawns_tracked > 0

(***************************************************************************)
(* C32  No task acquires a lock while it holds another one (queue lock,    *)
(* census lock, the singleton-creation locks), so under every interleaving *)
(* of the webhook handlers, the Dispatcher, the Janitor and the census     *)
(* timers each task that holds a lock can go on and no task waits for      *)
(* ever.                                                                   *)
(***************************************************************************)
C32_OneLockAtATime ==
  /\ \A t \in Handlers : Cardinality(holding[t]) <= 1
  /\ \A t \in Handlers : holding[t] # {} => ENABLED LockStep(t)
  /\ \E t \in Handlers : ENABLED LockStep(t)

\* two handlers wait for the queue lock that a third one holds, while the
\* census lock and a singleton-creation lock are held by other tasks
C32_Witness ==
  /\ "_queue_lock" \in holding["_cleanup_loop"]
  /\ ~ENABLED LockStep("_run_loop")
  /\ ~ENABLED LockStep("filter_iv_pokemon")
  /\ "_manager_lock" \in holding["_ranking_loop"]
  /\ "RarityManager._lock" \in holding["filter_non_iv_pokemon"]

(***************************************************************************)
(* C33  As long as update_concurrency has not been called: _active_scouts  *)
(* is the number of entries get_next_for_scout returned that were not yet  *)
(* passed to mark_scout_complete, it is never negative, and the free slots *)
(* of the semaphore plus _active_scouts make concurrency_scout.            *)
(***************************************************************************)
C33_ActiveScoutsExact ==
  ~updated =>
    /\ _active_scouts = Cardinality(scoutTasks)
    /\ scoutTasks = { e \in Ids : objs[e].is_scouting }
    /\ _active_scouts >= 0
    /\ _scout_semaphore >= 0
    /\ _scout_semaphore + _active_scouts = concurrency_scout

\* a scout is in flight for an entry that was removed meanwhile, after an
\* earlier scout has completed
C33_Witness ==
  /\ ~updated
  /\ _active_scouts = 1
  /\ _scout_semaphore = concurrency_scout - 1
  /\ \E e \in scoutTasks : ~Live(e)
  /\ \E e \in Ids : objs[e].was_scouted

(***************************************************************************)
(* C34  When an entry was removed (matched, expired or timed out) while    *)
(* its scout was in flight, the mark_scout_complete that follows takes     *)
(* _active_scouts down by one and gives one slot back, happens once, and   *)
(* leaves the dict and the heap as they are: the entry stays removed, is   *)
(* in neither of them and in no preview or count, and is never handed out  *)
(* again.                                                                  *)
(***************************************************************************)
C34_CompletionAfterRemoval ==
  [][ \A e \in Ids :
        /\ (e \in scoutTasks /\ ~Live(e) /\ e \notin scoutTasks')
             => /\ _active_scouts' = _active_scouts - 1
                /\ _scout_semaphore' = _scout_semaphore + 1
                /\ _entries' = _entries
                /\ _heap' = _heap
                /\ objs'[e].is_removed
                /\ e \notin DictValues(_entries')
                /\ e \notin HeapElements'
                /\ e \notin PreviewIds'
                /\ get_queue_size' = get_queue_size
                /\ waiting_for_iv' = waiting_for_iv
                /\ stats' = stats
        /\ (~Live(e) /\ e \notin scoutTasks)
             => /\ e \notin scoutTasks'
                /\ objs'[e].is_removed
                /\ e \notin DictValues(_entries') ]_vars

\* an entry was removed during its scout, and the completion that is due
\* now frees the slot and leaves the entry out of the dict
C34_Witness ==
  \E e \in scoutTasks :
    /\ ~Live(e)
    /\ _scout_semaphore = 0
    /\ ENABLED (/\ mark_scout_complete(e, FALSE)
                /\ _active_scouts' = 0
                /\ _scout_semaphore' = concurrency_scout
                /\ e \notin DictValues(_entries'))

(***************************************************************************)
(* C35  get_next_for_scout returns no entry twice: an entry it hands out   *)
(* has never been handed out before, and an entry that was handed out is   *)
(* not in the heap and is not the next one to be handed out, whether its   *)
(* scout is in flight, has succeeded or has failed.                        *)
(***************************************************************************)
C35_DispatchedAtMostOnce ==
  [][ \A e \in Ids :
        /\ Dispatched(e)
             => /\ objs[e].scout_started_at = NoTime
                /\ ~objs[e].was_scouted
        /\ objs[e].scout_started_at # NoTime
             => /\ ~Dispatched(e)
                /\ objs'[e].scout_started_at = objs[e].scout_started_at
                /\ e \notin HeapElements'
                /\ NextLoop(objs', _entries', _heap').entry # e ]_vars

\* a scout has completed, its entry still waits in the dict for its match,
\* a slot is free, and the Dispatcher finds nothing to hand out
C35_Witness ==
  /\ _scout_semaphore > 0
  /\ scoutTasks = {}
  /\ NextLoop(objs, _entries, _heap).entry = NoEntry
  /\ \E e \in DictValues(_entries) :
       objs[e].was_scouted /\ ~objs[e].is_scouting /\ Live(e)

(***************************************************************************)
(* C36  After an entry was removed its key can be queued again: the feed's *)
(* next sighting with that key is accepted as a new entry.  The heap       *)
(* element of the removed entry neither blocks the new entry nor is handed *)
(* out for it: get_next_for_scout never returns the removed entry, and it  *)
(* returns the new one in its own (priority, timestamp) position, that is, *)
(* no pending entry is preferred that the new one sorts before, and the    *)
(* new one is returned when it sorts before every other pending entry.     *)
(***************************************************************************)
C36_RequeueAfterRemoval ==
  LET r == NextLoop(objs, _entries, _heap)
      SameKey(a, b) == unique_key(objs[a]) = unique_key(objs[b])
  IN  /\ \A a \in Ids :
           ~Live(a) =>
             /\ r.entry # a
             /\ ((\A b \in Ids : SameKey(a, b) => ~Live(b)) /\ Len(objs) < MaxEntries)
                  => ENABLED (/\ FeedNonIv
                              /\ Len(objs') = Len(objs) + 1
                              /\ unique_key(objs'[Len(objs')]) = unique_key(objs[a])
                              /\ Len(objs') \in DictValues(_entries')
                              /\ Len(objs') \in { _heap'[i] : i \in 1..Len(_heap') })
      /\ \A a, b \in Ids :
           (a # b /\ SameKey(a, b) /\ ~Live(a) /\ IsPending(b)) =>
             /\ b \in HeapElements
             /\ r.entry \in Pending
             /\ ~EntryLess(objs[b], objs[r.entry])
             /\ (\A c \in Pending \ {b} : EntryLess(objs[b], objs[c]))
                  => r.entry = b

\* the key of a removed entry was queued again while the removed entry's
\* element is still in the heap, and the new entry is the next to go out
C36_Witness ==
  \E a, b \in Ids :
    /\ a # b
    /\ unique_key(objs[a]) = unique_key(objs[b])
    /\ ~Live(a)
    /\ IsPending(b)
    /\ a \in HeapElements
    /\ _heap[1] = a
    /\ _scout_semaphore > 0
    /\ NextLoop(objs, _entries, _heap).entry = b

(***************************************************************************)
(* C37  Every entry the sightings feed queued is removed eventually (by a  *)
(* match, a scout timeout or its expiry) while the cleanup loop keeps      *)
(* ticking and time moves on, also when it is never handed out because no  *)
(* slot gets free: every entry has a disappear_time, the feed's or the     *)
(* default of 600 s from its arrival, and none stays in the dict for ever. *)
(* (Entries whose disappear_time is not before the last clock value of the *)
(* model are left out of the eventuality.)                                 *)
(***************************************************************************)
C37_EveryEntryLeaves ==
  /\ [](\A e \in Ids :
          /\ objs[e].disappear_time # NoTime
          /\ objs[e].disappear_time <=
               Max(objs[e].timestamp + DefaultDisappearDelay, MaxTime))
  /\ \A e \in 1..MaxEntries :
       (/\ e \in Ids /\ Live(e)
        /\ objs[e].disappear_time < (MaxTime - 1) * DefaultDisappearDelay + 1)
       ~> (e \in Ids /\ ~Live(e) /\ e \notin DictValues(_entries))

\* an entry that came without disappear_time and was never handed out,
\* while the only slot was taken all the time, has left the dict 600 s
\* after its arrival
C37_Witness ==
  \E e \in Ids :
    /\ objs[e].disappear_time = objs[e].timestamp + DefaultDisappearDelay
    /\ ~Live(e)
    /\ e \notin DictValues(_entries)
    /\ objs[e].scout_started_at = NoTime
    /\ Total(_early_iv_by_type) = 0
    /\ _scout_semaphore = 0
    /\ \E f \in scoutTasks : objs[f].timestamp <= objs[e].timestamp

(***************************************************************************)
(* C38  For each seen_type t the counters add up: _queued_by_type[t] is    *)
(* the number of entries of type t that were accepted, which are the ones  *)
(* still in the queue, those counted in _matches_by_type[t],               *)
(* _early_iv_by_type[t] and _timeouts_by_type[t], and those cleanup_expired *)
(* removed; every removal of an entry of type t raises exactly one of the  *)
(* three counters by one, unless cleanup_expired made it, which raises     *)
(* none.  So matches + early IVs + timeouts never exceed the queued count. *)
(***************************************************************************)
C38_CountersAddUp ==
  [][ \A t \in SeenTypes :
        LET live == { e \in Ids : objs[e].seen_type = t /\ Live(e) }
            live_after == { e \in 1..Len(objs') :
                              objs'[e].seen_type = t /\ ~objs'[e].is_removed }
            accepted == { e \in 1..Len(objs') :
                            e > Len(objs) /\ objs'[e].seen_type = t }
            gone == { e \in NewlyRemoved : objs[e].seen_type = t }
            swept == { e \in gone : IsExpired(e) /\ ~IvStep }
            counted == _matches_by_type[t] + _early_iv_by_type[t]
                         + _timeouts_by_type[t]
            counted_after == _matches_by_type'[t] + _early_iv_by_type'[t]
                               + _timeouts_by_type'[t]
        IN  /\ _queued_by_type'[t] = _queued_by_type[t] + Cardinality(accepted)
            /\ counted_after = counted + Cardinality(gone) - Cardinality(swept)
            /\ swept # {} => cleanup_loop
            /\ live_after = (live \ gone) \cup accepted
            /\ live_after = { e \in DictValues(_entries') : objs'[e].seen_type = t }
            /\ _queued_by_type'[t] =
                 Cardinality({ e \in 1..Len(objs') : objs'[e].seen_type = t })
            /\ counted_after <= _queued_by_type'[t] - Cardinality(live_after) ]_vars

\* two entries of one type were queued; one was counted as a timeout and
\* the other was swept as expired, counted nowhere
C38_Witness ==
  \E t \in SeenTypes :
    /\ _queued_by_type[t] = 2
    /\ _timeouts_by_type[t] = 1
    /\ _matches_by_type[t] = 0
    /\ _early_iv_by_type[t] = 0
    /\ \A e \in Ids : objs[e].seen_type = t /\ ~Live(e)

(***************************************************************************)
(* C39  The proximity fallback of the match removes only an entry of the   *)
(* species of the IV sighting: an IV sighting of one species, within 70 m  *)
(* of a queued entry of another species and with another encounter_id,     *)
(* does not remove that entry.                                             *)
(***************************************************************************)
C39_ProximitySameSpecies ==
  [][ \A p \in World :
        filter_iv_pokemon(p) =>
          \A e \in NewlyRemoved :
            (/\ objs[e].encounter_id # p.encounter_id
             /\ is_within_distance(objs[e].loc, p.loc,
                                   COORDINATE_MATCH_THRESHOLD_METERS))
              => objs[e].pokemon_id = p.pokemon_id ]_vars

(***************************************************************************)
(* C40  The pending count of the queue statistics is the number of entries *)
(* in the pending state (not removed, not in flight, not awaiting their    *)
(* match), in every reachable state, also while scouts are in flight.      *)
(***************************************************************************)
C40_PendingCountExact ==
  get_stats_pending =
    Cardinality({ e \in DictValues(_entries) : IsPending(e) })

====
